---- MODULE Spec2Model ----
(***************************************************************************)
(* PromptPilot: the prompt-to-action pipeline.                             *)
(*   core/parser.py     CommandParser  (Intent Resolver, Plan Executor)    *)
(*   core/llm_agent.py  LLMAgent       (Plan Synthesizer)                  *)
(*   core/vision.py     VisionEngine   (Screen Analyzer)                   *)
(*   core/voice.py      VoiceRecognizer                                    *)
(* Instructions and backend responses are character strings; the regular   *)
(* expressions of the source are evaluated character by character.         *)
(***************************************************************************)
EXTENDS Integers, Sequences, FiniteSets, TLC

(***************************************************************************)
(* State.                                                                  *)
(***************************************************************************)
VARIABLES
    app,               \* "start", "running", or "crashed" (construction raised)
    vision,            \* CommandParser.vision is not None
    llm_agent,         \* CommandParser.llm_agent is not None
    ollama_available,  \* LLMAgent.ollama_available
    text_input,        \* the text of the input panel
    last,              \* what the last parse returned, and under which flag
    prev,              \* the same for the parse before it
    backend_result,    \* how the backend call of the last parse ended
    captures,          \* analyze_screen calls of _parse_with_llm so far
    given,             \* the backend response under synthesis
    returned_plan,     \* what generate_plan returned for it
    synth_pc,          \* "idle", "called", "returned"
    probe,             \* how `ollama list` of _check_ollama ended: "none", "ok", "failed"
    pulls,             \* `ollama pull` calls made by the latest handler
    ui_pc,             \* what the UI thread is doing: "idle" or "resolving"
    workers,           \* the threads started by _execute_prompt, in start order
    screen,            \* the texts OCR reads on the screen
    ocr_available,     \* VisionEngine._ocr_available
    last_screenshot,   \* VisionEngine.last_screenshot
    screenshot_cache,  \* VisionEngine.screenshot_cache, oldest first
    ocr_cache,         \* VisionEngine.ocr_cache, oldest first
    all_shots,         \* every image capture_screen took, in capture order
    all_texts,         \* every entry get_ocr_text appended to ocr_cache, in order
    retrieved,         \* the last retrieval of the screen state: what it worked from
    answer,            \* what the last vision-based intent returned
    microphone,        \* VoiceRecognizer.microphone is not None
    is_listening,      \* VoiceRecognizer.is_listening
    loops,             \* the _listen_loop threads, in start order
    delivered          \* the calls of VoiceRecognizer.callback, in order

\* the variables of the Plan Synthesizer on its own
synth_vars == <<given, returned_plan, synth_pc>>
\* the variables of the workers and the Plan Executor
exec_vars == <<ui_pc, workers, screen>>
\* the variables of the Screen Analyzer
vision_vars == <<ocr_available, last_screenshot, screenshot_cache, ocr_cache, all_shots,
                 all_texts, retrieved, answer>>
\* the variables of the voice recognizer
voice_vars == <<microphone, is_listening, loops, delivered>>

vars == <<app, vision, llm_agent, ollama_available, text_input, last, prev, backend_result,
          captures, given, returned_plan, synth_pc, probe, pulls, ui_pc, workers, screen,
          ocr_available, last_screenshot, screenshot_cache, ocr_cache, all_shots, all_texts,
          retrieved, answer, microphone, is_listening, loops, delivered>>

(***************************************************************************)
(* Strings.                                                                *)
(***************************************************************************)
Whitespace == {" ", "\t", "\n"}
Quotes == {"'", "\""}
WordChars == {"a","b","c","d","e","f","g","h","i","j","k","l","m","n","o","p",
              "q","r","s","t","u","v","w","x","y","z","_",
              "0","1","2","3","4","5","6","7","8","9",
              "A","B","C","D","E","F","G","H","I","J","K","L","M","N","O","P",
              "Q","R","S","T","U","V","W","X","Y","Z"}
WordOrSpace == WordChars \cup Whitespace
UpperLetters == "ABCDEFGHIJKLMNOPQRSTUVWXYZ"
LowerLetters == "abcdefghijklmnopqrstuvwxyz"

\* s[i], or "" outside the string
At(s, i) == IF i >= 1 /\ i <= Len(s) THEN SubSeq(s, i, i) ELSE ""

\* s[i-1:] (1-based i), "" when i is past the end
From(s, i) == IF i <= Len(s) THEN SubSeq(s, i, Len(s)) ELSE ""

\* s[i-1:j] (1-based, inclusive), "" when empty
Sub(s, i, j) == IF i <= j THEN SubSeq(s, i, j) ELSE ""

\* s.startswith(sub, i-1)
StartsAt(s, sub, i) ==
    /\ i >= 1
    /\ i + Len(sub) - 1 <= Len(s)
    /\ SubSeq(s, i, i + Len(sub) - 1) = sub

\* one of the alternatives starts at i: the length of the first that does, else 0
AltLen(s, alts, i) ==
    IF \E k \in 1..Len(alts) : StartsAt(s, alts[k], i)
    THEN Len(alts[CHOOSE k \in 1..Len(alts) :
                 /\ StartsAt(s, alts[k], i)
                 /\ \A j \in 1..(k - 1) : ~StartsAt(s, alts[j], i)])
    ELSE 0

\* sub in s
Contains(s, sub) == \E i \in 1..Len(s) : StartsAt(s, sub, i)

\* the positions where sub starts
Occurrences(s, sub) == {i \in 1..Len(s) : StartsAt(s, sub, i)}

MinOf(S) == CHOOSE x \in S : \A y \in S : x <= y
MaxOf(S) == CHOOSE x \in S : \A y \in S : x >= y

\* number of consecutive characters of class C starting at position p
RunIn(s, p, C) ==
    IF p > Len(s) THEN 0
    ELSE MinOf({k \in p..(Len(s) + 1) : At(s, k) \notin C}) - p

\* number of consecutive characters outside class C starting at position p
RunNotIn(s, p, C) ==
    IF p > Len(s) THEN 0
    ELSE MinOf({k \in p..(Len(s) + 1) : k = Len(s) + 1 \/ At(s, k) \in C}) - p

\* str.lower() on ASCII letters
LowerChar(c) ==
    IF \E k \in 1..26 : SubSeq(UpperLetters, k, k) = c
    THEN LET k == CHOOSE j \in 1..26 : SubSeq(UpperLetters, j, j) = c
         IN SubSeq(LowerLetters, k, k)
    ELSE c

RECURSIVE Lower(_)
Lower(s) == IF Len(s) = 0 THEN ""
            ELSE LowerChar(At(s, 1)) \o Lower(From(s, 2))

\* str.strip()
Strip(s) ==
    LET a == 1 + RunIn(s, 1, Whitespace)
        ends == {k \in 0..Len(s) : k = 0 \/ At(s, k) \notin Whitespace}
    IN Sub(s, a, MaxOf(ends))

\* the pattern '.' of re: any character but a newline
NoNewline(s, i, j) == \A k \in i..j : At(s, k) # "\n"

(***************************************************************************)
(* The regular expressions of CommandParser.parse.  A match is a record    *)
(* [ok, g1, g2]; re.search returns the leftmost match, and within one      *)
(* start position the first one in backtracking order.                     *)
(***************************************************************************)
NoMatch == [ok |-> FALSE, g1 |-> "", g2 |-> ""]
Match(a, b) == [ok |-> TRUE, g1 |-> a, g2 |-> b]

\* re.search: the match at the leftmost start position where MatchAt succeeds
Leftmost(s, MatchAt(_, _)) ==
    LET starts == {i \in 1..Len(s) : MatchAt(s, i).ok}
    IN IF starts = {} THEN NoMatch ELSE MatchAt(s, MinOf(starts))

\* '$': at the end of the string, or just before a final newline
EndAt(s, c) == c = Len(s) + 1 \/ (c = Len(s) /\ At(s, c) = "\n")

\* re.search(A.*B, s) for sets of literals A and B
SearchTwo(s, A, B) ==
    \E i \in 1..Len(s) : \E a \in A :
      /\ StartsAt(s, a, i)
      /\ \E j \in (i + Len(a))..Len(s) : \E b \in B :
           /\ StartsAt(s, b, j)
           /\ NoNewline(s, i, j)

\* re.search(A.*B.*C, s) for sets of literals A, B and C
SearchThree(s, A, B, C) ==
    \E i \in 1..Len(s) : \E a \in A :
      /\ StartsAt(s, a, i)
      /\ \E j \in (i + Len(a))..Len(s) : \E b \in B :
           /\ StartsAt(s, b, j)
           /\ \E k \in (j + Len(b))..Len(s) : \E c \in C :
                /\ StartsAt(s, c, k)
                /\ NoNewline(s, i, k)

\* (what'?s|what is|describe|show).*(on|my).*screen
ScreenDescriptionRe(s) ==
    SearchThree(s, {"whats", "what's", "what is", "describe", "show"},
                {"on", "my"}, {"screen"})

\* (find|click|locate)\s+["']?([^"']+)["']?  at start position i
FindClickLocateAt(s, i) ==
    LET kl == AltLen(s, <<"find", "click", "locate">>, i)
        p == i + kl
        n == RunIn(s, p, Whitespace)
        q == p + n
    IN IF kl = 0 \/ n = 0 THEN NoMatch
       ELSE IF At(s, q) \in Quotes /\ q + 1 <= Len(s) /\ At(s, q + 1) \notin Quotes
         THEN Match(Sub(s, i, p - 1), Sub(s, q + 1, q + RunNotIn(s, q + 1, Quotes)))
       ELSE IF q <= Len(s) /\ At(s, q) \notin Quotes
         THEN Match(Sub(s, i, p - 1), Sub(s, q, q + RunNotIn(s, q, Quotes) - 1))
       ELSE IF n >= 2
         THEN Match(Sub(s, i, p - 1), At(s, q - 1))
       ELSE NoMatch

FindClickLocateRe(s) == Leftmost(s, FindClickLocateAt)

\* (read|what).*text.*(on|screen|visible)
ReadTextRe(s) ==
    SearchThree(s, {"read", "what"}, {"text"}, {"on", "screen", "visible"})

\* (answer|tell me|what|where|how many).*(about|on|screen)
ScreenQuestionRe(s) ==
    SearchTwo(s, {"answer", "tell me", "what", "where", "how many"},
              {"about", "on", "screen"})

\* (make|create|new).*google.*sheet
GoogleSheetRe(s) ==
    SearchThree(s, {"make", "create", "new"}, {"google"}, {"sheet"})

\* open\s+([\w\s]+)
OpenTriggerRe(s) ==
    \E i \in Occurrences(s, "open") :
      /\ At(s, i + 4) \in Whitespace
      /\ At(s, i + 5) \in WordOrSpace

\* (?:$|\s+and|\s+then) at position c
TermAt(s, c) ==
    \/ EndAt(s, c)
    \/ LET u == RunIn(s, c, Whitespace)
       IN u >= 1 /\ (StartsAt(s, "and", c + u) \/ StartsAt(s, "then", c + u))

\* (?:\s+app)(?:$|\s+and|\s+then) at position c
AppTermAt(s, c) ==
    LET t == RunIn(s, c, Whitespace)
    IN t >= 1 /\ StartsAt(s, "app", c + t) /\ TermAt(s, c + t + 3)

\* ([\w\s]+?)(?:\s+app)?(?:$|\s+and|\s+then) from position b: the lazy group
\* ends at the first position where the rest of the pattern matches
OpenGroupFrom(s, b) ==
    LET ends == {c \in (b + 1)..(b + RunIn(s, b, WordOrSpace)) :
                    AppTermAt(s, c) \/ TermAt(s, c)}
    IN IF ends = {} THEN NoMatch ELSE Match(Sub(s, b, MinOf(ends) - 1), "")

\* open\s+(?:the\s+)?([\w\s]+?)(?:\s+app)?(?:$|\s+and|\s+then) at start i.
\* Backtracking order: \s+ longest first; "the\s+" taken (its \s+ longest
\* first) before skipped.  A candidate is <<rank, start of the group>>.
OpenExtractAt(s, i) ==
    LET p == i + 4
        n == RunIn(s, p, Whitespace)
        W == Len(s) + 2
        TheRun(a) == IF StartsAt(s, "the", a) THEN RunIn(s, a + 3, Whitespace) ELSE 0
        cands == UNION {
            {<<(n - n1) * W + (TheRun(p + n1) - r1), p + n1 + 3 + r1>> :
                 r1 \in 1..TheRun(p + n1)}
            \cup {<<(n - n1) * W + W - 1, p + n1>>} : n1 \in 1..n}
        good == {c \in cands : OpenGroupFrom(s, c[2]).ok}
        best == CHOOSE c \in good : \A d \in good : c[1] <= d[1]
    IN IF ~StartsAt(s, "open", i) \/ n = 0 \/ good = {} THEN NoMatch
       ELSE OpenGroupFrom(s, best[2])

OpenExtractRe(s) == Leftmost(s, OpenExtractAt)

\* kw\s+["'](.+?)["'] at start i (kw is "type" or "copy"): the lazy group
\* ends before the first later quote character of either kind
QuotedAt(s, kw, i) ==
    LET p == i + Len(kw)
        n == RunIn(s, p, Whitespace)
        q == p + n
        closers == {k \in (q + 2)..Len(s) :
                       At(s, k) \in Quotes /\ NoNewline(s, q + 1, k - 1)}
    IN IF StartsAt(s, kw, i) /\ n >= 1 /\ At(s, q) \in Quotes /\ closers # {}
       THEN Match(Sub(s, q + 1, MinOf(closers) - 1), "")
       ELSE NoMatch

TypeQuotedAt(s, i) == QuotedAt(s, "type", i)
CopyQuotedAt(s, i) == QuotedAt(s, "copy", i)

\* type\s+["'](.+?)["']
TypeQuotedRe(s) == Leftmost(s, TypeQuotedAt)

\* copy\s+["'](.+?)["']
CopyQuotedRe(s) == Leftmost(s, CopyQuotedAt)

\* type\s+([^in]+?)\s+in\s+ at start i
TypeInAt(s, i) ==
    LET p == i + 4
        n == RunIn(s, p, Whitespace)
        Ends(b) == {c \in (b + 1)..(b + RunNotIn(s, b, {"i", "n"})) :
                      LET u == RunIn(s, c, Whitespace)
                      IN /\ u >= 1
                         /\ StartsAt(s, "in", c + u)
                         /\ At(s, c + u + 2) \in Whitespace}
        good == {n1 \in 1..n : Ends(p + n1) # {}}
        b0 == p + MaxOf(good)
    IN IF ~StartsAt(s, "type", i) \/ good = {} THEN NoMatch
       ELSE Match(Sub(s, b0, MinOf(Ends(b0)) - 1), "")

TypeInRe(s) == Leftmost(s, TypeInAt)

\* kw\s+([\w\s]+) at start i (kw is "in" or "play")
KeywordArgAt(s, kw, i) ==
    LET p == i + Len(kw)
        n == RunIn(s, p, Whitespace)
        q == p + n
        m == RunIn(s, q, WordOrSpace)
    IN IF ~StartsAt(s, kw, i) \/ n = 0 THEN NoMatch
       ELSE IF m >= 1 THEN Match(Sub(s, q, q + m - 1), "")
       ELSE IF n >= 2 THEN Match(At(s, q - 1), "")
       ELSE NoMatch

InAppAt(s, i) == KeywordArgAt(s, "in", i)
PlayAt(s, i) == KeywordArgAt(s, "play", i)

\* in\s+([\w\s]+)
InAppRe(s) == Leftmost(s, InAppAt)

\* play\s+([\w\s]+)
PlayRe(s) == Leftmost(s, PlayAt)

\* (?:word\s+)? at position a: the position after it
SkipOptional(s, word, a) ==
    LET r == RunIn(s, a + Len(word), Whitespace)
    IN IF StartsAt(s, word, a) /\ r >= 1 THEN a + Len(word) + r ELSE a

\* draw\s+(?:a\s+)?(?:red\s+)?circle\s+in\s+paint
DrawCircleRe(s) ==
    \E i \in Occurrences(s, "draw") :
      LET n == RunIn(s, i + 4, Whitespace)
          a == SkipOptional(s, "red", SkipOptional(s, "a", i + 4 + n))
          n2 == RunIn(s, a + 6, Whitespace)
          n3 == RunIn(s, a + 6 + n2 + 2, Whitespace)
      IN /\ n >= 1
         /\ StartsAt(s, "circle", a)
         /\ n2 >= 1
         /\ StartsAt(s, "in", a + 6 + n2)
         /\ n3 >= 1
         /\ StartsAt(s, "paint", a + 6 + n2 + 2 + n3)

\* take\s+(?:a\s+)?screenshot
ScreenshotRe(s) ==
    \E i \in Occurrences(s, "take") :
      LET n == RunIn(s, i + 4, Whitespace)
      IN /\ n >= 1
         /\ StartsAt(s, "screenshot", SkipOptional(s, "a", i + 4 + n))

\* open\s+spotify
SpotifyRe(s) ==
    \E i \in Occurrences(s, "open") :
      LET n == RunIn(s, i + 4, Whitespace)
      IN n >= 1 /\ StartsAt(s, "spotify", i + 4 + n)

\* open\s+(https?://[^\s]+) at start i
UrlAt(s, i) ==
    LET n == RunIn(s, i + 4, Whitespace)
        q == i + 4 + n
        sl == IF StartsAt(s, "https://", q) THEN 8
              ELSE IF StartsAt(s, "http://", q) THEN 7 ELSE 0
        m == RunNotIn(s, q + sl, Whitespace)
    IN IF StartsAt(s, "open", i) /\ n >= 1 /\ sl > 0 /\ m >= 1
       THEN Match(Sub(s, q, q + sl + m - 1), "")
       ELSE NoMatch

UrlRe(s) == Leftmost(s, UrlAt)

\* kw\s+(["']?)([\w\s]+)\1 at start i, the pattern of _extract_name
ExtractNameAt(s, kw, i) ==
    LET p == i + Len(kw)
        n == RunIn(s, p, Whitespace)
        q == p + n
        m1 == RunIn(s, q + 1, WordOrSpace)
        m2 == RunIn(s, q, WordOrSpace)
    IN IF ~StartsAt(s, kw, i) \/ n = 0 THEN NoMatch
       ELSE IF At(s, q) \in Quotes /\ m1 >= 1 /\ At(s, q + 1 + m1) = At(s, q)
         THEN Match(At(s, q), Sub(s, q + 1, q + m1))
       ELSE IF m2 >= 1
         THEN Match("", Sub(s, q, q + m2 - 1))
       ELSE IF n >= 2
         THEN Match("", At(s, q - 1))
       ELSE NoMatch

SheetNameAt(s, i) == ExtractNameAt(s, "sheet", i)
CalledNameAt(s, i) == ExtractNameAt(s, "called", i)
NamedNameAt(s, i) == ExtractNameAt(s, "named", i)

\* CommandParser._extract_name(prompt, ['sheet', 'called', 'named']):
\* [found, name]; found = FALSE is Python's None
ExtractName(s) ==
    LET a == Leftmost(s, SheetNameAt)
        b == Leftmost(s, CalledNameAt)
        c == Leftmost(s, NamedNameAt)
    IN IF a.ok THEN [found |-> TRUE, name |-> Strip(a.g2)]
       ELSE IF b.ok THEN [found |-> TRUE, name |-> Strip(b.g2)]
       ELSE IF c.ok THEN [found |-> TRUE, name |-> Strip(c.g2)]
       ELSE [found |-> FALSE, name |-> ""]

\* re.match(r'^open\s+\w+$', s)
SimpleOpenRe(s) ==
    LET n == RunIn(s, 5, Whitespace)
        m == RunIn(s, 5 + n, WordChars)
    IN StartsAt(s, "open", 1) /\ n >= 1 /\ m >= 1 /\ EndAt(s, 5 + n + m)

\* re.match(r'^take\s+screenshot$', s)
SimpleScreenshotRe(s) ==
    LET n == RunIn(s, 5, Whitespace)
    IN /\ StartsAt(s, "take", 1) /\ n >= 1
       /\ StartsAt(s, "screenshot", 5 + n) /\ EndAt(s, 5 + n + 10)

\* re.match(r'^copy\s+".*"$', s)
SimpleCopyRe(s) ==
    LET n == RunIn(s, 5, Whitespace)
        q == 5 + n
    IN /\ StartsAt(s, "copy", 1) /\ n >= 1 /\ At(s, q) = "\""
       /\ \E k \in (q + 1)..Len(s) :
            At(s, k) = "\"" /\ EndAt(s, k + 1) /\ NoNewline(s, q + 1, k - 1)

complex_keywords == {"create", "make", "build", "generate", "set up",
                     "configure", "add", "remove", "update", "change"}
multi_step_words == {"then", "and", "after", "next"}

\* _needs_llm without its multi-step word test
needs_llm_KeywordsOnly(prompt_lower) ==
    IF SimpleOpenRe(prompt_lower) \/ SimpleScreenshotRe(prompt_lower)
       \/ SimpleCopyRe(prompt_lower)
    THEN FALSE
    ELSE \E keyword \in complex_keywords : Contains(prompt_lower, keyword)

\* _needs_llm that remembers an earlier call: anything after the first parse is
\* treated as complex
needs_llm_Remembering(prompt_lower) ==
    \/ last.result.kind # "none"
    \/ /\ ~(SimpleOpenRe(prompt_lower) \/ SimpleScreenshotRe(prompt_lower)
            \/ SimpleCopyRe(prompt_lower))
       /\ \E w \in complex_keywords \cup multi_step_words : Contains(prompt_lower, w)

\* CommandParser._needs_llm
needs_llm(prompt_lower) ==
    IF SimpleOpenRe(prompt_lower) \/ SimpleScreenshotRe(prompt_lower)
       \/ SimpleCopyRe(prompt_lower)
    THEN FALSE
    ELSE IF \E keyword \in complex_keywords : Contains(prompt_lower, keyword)
    THEN TRUE
    ELSE \E word \in multi_step_words : Contains(prompt_lower, word)

(***************************************************************************)
(* Python values that travel as arguments and plans: tagged records.       *)
(***************************************************************************)
JStr(x) == [t |-> "str", v |-> x]
JNum(x) == [t |-> "num", v |-> x]
JNull == [t |-> "null", v |-> ""]
JArr(x) == [t |-> "arr", v |-> x]
JObj(x) == [t |-> "obj", v |-> x]

(***************************************************************************)
(* The intent matchers of CommandParser.parse.  Each is one `if` block of  *)
(* the method: it returns the (status, {'action', 'args'}) pair it binds,  *)
(* or FallThrough when control reaches the next block.                     *)
(***************************************************************************)
Bound(m, st, act, as) ==
    [kind |-> "return", matcher |-> m, status |-> st, action |-> act, args |-> as]
FallThrough ==
    [kind |-> "fall", matcher |-> "none", status |-> "", action |-> "None", args |-> <<>>]
Raised(m) ==
    [kind |-> "raise", matcher |-> m, status |-> "", action |-> "None", args |-> <<>>]

ScreenDescriptionMatcher(prompt, prompt_lower) ==
    IF ScreenDescriptionRe(prompt_lower)
    THEN Bound("screen_description", "Analyzing screen...", "_describe_screen", <<>>)
    ELSE FallThrough

FindClickLocateMatcher(prompt, prompt_lower) ==
    LET match == FindClickLocateRe(prompt_lower)
        target == Strip(match.g2)
    IN IF ~match.ok THEN FallThrough
       ELSE IF match.g1 = "click"
         THEN Bound("find_click_locate", "Finding and clicking '" \o target \o "'...",
                    "_find_and_click", <<JStr(target)>>)
       ELSE Bound("find_click_locate", "Searching for '" \o target \o "'...",
                  "_find_on_screen", <<JStr(target)>>)

ReadTextMatcher(prompt, prompt_lower) ==
    IF ReadTextRe(prompt_lower)
    THEN Bound("read_text", "Reading text on screen...", "_read_screen_text", <<>>)
    ELSE FallThrough

ScreenQuestionMatcher(prompt, prompt_lower) ==
    IF ScreenQuestionRe(prompt_lower)
    THEN Bound("screen_question", "Analyzing screen to answer question...",
               "_answer_question", <<JStr(prompt)>>)
    ELSE FallThrough

GoogleSheetMatcher(prompt, prompt_lower) ==
    LET sheet_name == ExtractName(prompt_lower)
    IN IF GoogleSheetRe(prompt_lower)
       THEN Bound("structured_creation", "Opening Google Sheets...", "_create_google_sheet",
                  <<JStr(IF sheet_name.found /\ sheet_name.name # ""
                         THEN sheet_name.name ELSE "Untitled")>>)
       ELSE FallThrough

\* the launch-application block raising when its extraction fails
OpenAppMatcher_Raising(prompt, prompt_lower) ==
    LET app_match == OpenExtractRe(prompt_lower)
        app_name == Strip(app_match.g1)
    IN IF OpenTriggerRe(prompt_lower)
       THEN IF app_match.ok
            THEN Bound("launch_application", "Opening " \o app_name \o "...",
                       "launch_app", <<JStr(app_name)>>)
            ELSE Raised("launch_application")
       ELSE FallThrough

OpenAppMatcher(prompt, prompt_lower) ==
    LET app_match == OpenExtractRe(prompt_lower)
        app_name == Strip(app_match.g1)
    IN IF OpenTriggerRe(prompt_lower)
       THEN IF app_match.ok
            THEN Bound("launch_application", "Opening " \o app_name \o "...",
                       "launch_app", <<JStr(app_name)>>)
            ELSE FallThrough
       ELSE FallThrough

TypeInAppMatcher(prompt, prompt_lower) ==
    LET quoted == TypeQuotedRe(prompt_lower)
        text_match == IF quoted.ok THEN quoted ELSE TypeInRe(prompt_lower)
        text_to_type == Strip(text_match.g1)
        app_match == InAppRe(prompt_lower)
        app_name == IF app_match.ok THEN Strip(app_match.g1) ELSE "notepad"
    IN IF TypeQuotedRe(prompt_lower).ok \/ TypeInRe(prompt_lower).ok
       THEN IF text_match.ok
            THEN Bound("type_in_application", "Opening " \o app_name \o " and typing...",
                       "_type_in_app", <<JStr(text_to_type), JStr(app_name)>>)
            ELSE FallThrough
       ELSE FallThrough

DrawCircleMatcher(prompt, prompt_lower) ==
    IF DrawCircleRe(prompt_lower)
    THEN Bound("drawing", "Opening Paint and drawing circle...", "_draw_circle_in_paint", <<>>)
    ELSE FallThrough

ScreenshotMatcher(prompt, prompt_lower) ==
    IF ScreenshotRe(prompt_lower)
    THEN Bound("screenshot", "Taking screenshot...", "take_screenshot", <<>>)
    ELSE FallThrough

SpotifyMatcher(prompt, prompt_lower) ==
    LET play_match == PlayRe(prompt_lower)
        query == IF play_match.ok THEN JStr(Strip(play_match.g1)) ELSE JNull
    IN IF SpotifyRe(prompt_lower)
       THEN Bound("media_player", "Opening Spotify...", "_open_spotify_and_search", <<query>>)
       ELSE FallThrough

UrlMatcher(prompt, prompt_lower) ==
    LET url_match == UrlRe(prompt_lower)
    IN IF url_match.ok
       THEN Bound("direct_url", "Opening " \o url_match.g1 \o "...", "open_url",
                  <<JStr(url_match.g1)>>)
       ELSE FallThrough

CopyMatcher(prompt, prompt_lower) ==
    LET text_match == CopyQuotedRe(prompt_lower)
    IN IF text_match.ok
       THEN Bound("clipboard_copy", "Copying to clipboard...", "copy_to_clipboard",
                  <<JStr(text_match.g1)>>)
       ELSE FallThrough

BareOpenMatcher(prompt, prompt_lower) ==
    LET target == Strip(From(prompt_lower, 6))
        url == IF StartsAt(target, "http", 1) THEN target ELSE "https://" \o target
    IN IF StartsAt(prompt_lower, "open ", 1)
       THEN IF Contains(target, ".") /\ ~Contains(target, " ")
            THEN Bound("bare_open", "Opening " \o url \o "...", "open_url", <<JStr(url)>>)
            ELSE Bound("bare_open", "Opening " \o target \o "...", "launch_app", <<JStr(target)>>)
       ELSE FallThrough

\* the first result of the sequence that is not a fall-through
RECURSIVE FirstOf(_)
\* the element of a set of one
The(S) == CHOOSE x \in S : TRUE

FirstOf(rs) ==
    IF Len(rs) = 0 THEN FallThrough
    ELSE IF Head(rs).kind # "fall" THEN Head(rs)
    ELSE FirstOf(Tail(rs))

\* the `if self.vision:` block of parse
VisionMatchers(prompt, prompt_lower, vis) ==
    IF vis
    THEN <<ScreenDescriptionMatcher(prompt, prompt_lower), FindClickLocateMatcher(prompt, prompt_lower),
           ReadTextMatcher(prompt, prompt_lower), ScreenQuestionMatcher(prompt, prompt_lower)>>
    ELSE <<>>

\* the blocks after the vision block with the media-player block moved first
PlainMatchers_MediaFirst(prompt, prompt_lower) ==
    <<SpotifyMatcher(prompt, prompt_lower),
      GoogleSheetMatcher(prompt, prompt_lower), OpenAppMatcher(prompt, prompt_lower),
      TypeInAppMatcher(prompt, prompt_lower), DrawCircleMatcher(prompt, prompt_lower),
      ScreenshotMatcher(prompt, prompt_lower),
      UrlMatcher(prompt, prompt_lower), CopyMatcher(prompt, prompt_lower),
      BareOpenMatcher(prompt, prompt_lower)>>

\* the blocks of parse after the vision block, in source order
PlainMatchers(prompt, prompt_lower) ==
    <<GoogleSheetMatcher(prompt, prompt_lower), OpenAppMatcher(prompt, prompt_lower),
      TypeInAppMatcher(prompt, prompt_lower), DrawCircleMatcher(prompt, prompt_lower),
      ScreenshotMatcher(prompt, prompt_lower), SpotifyMatcher(prompt, prompt_lower),
      UrlMatcher(prompt, prompt_lower), CopyMatcher(prompt, prompt_lower), BareOpenMatcher(prompt, prompt_lower)>>

\* lines 35-168 of parse: the fixed-pattern chain
PatternChain(prompt, vis) ==
    The({FirstOf(rs) :
           rs \in {VisionMatchers(prompt, prompt_lower, vis)
                       \o PlainMatchers(prompt, prompt_lower) :
                    prompt_lower \in {Strip(Lower(prompt))}}})

(***************************************************************************)
(* json.loads and json.dumps on the JSON subset the backend exchanges:     *)
(* arrays, objects, strings without escapes, decimal numbers, true, false, *)
(* null.  A parse result is [ok, val, next]; ok = FALSE is JSONDecodeError.*)
(***************************************************************************)
JsonWs == {" ", "\t", "\n", "\r"}
Digits == {"0", "1", "2", "3", "4", "5", "6", "7", "8", "9"}
JFail == [ok |-> FALSE, val |-> JNull, next |-> 0]
JOk(v, n) == [ok |-> TRUE, val |-> v, next |-> n]
SkipWs(s, i) == i + RunIn(s, i, JsonWs)

\* a string literal at i: up to the next double quote
JString(s, i) ==
    LET closers == {k \in (i + 1)..Len(s) : At(s, k) = "\""}
        k0 == MinOf(closers)
    IN IF At(s, i) # "\"" \/ closers = {} THEN JFail
       ELSE IF \E k \in (i + 1)..(k0 - 1) : At(s, k) \in {"\\", "\n", "\t", "\r"} THEN JFail
       ELSE JOk(JStr(Sub(s, i + 1, k0 - 1)), k0 + 1)

\* a number at i: -?(0|[1-9][0-9]*)(\.[0-9]+)?
JNumber(s, i) ==
    LET a == IF At(s, i) = "-" THEN i + 1 ELSE i
        ip == IF At(s, a) = "0" THEN 1 ELSE RunIn(s, a, Digits)
        b == a + ip
        fp == IF At(s, b) = "." THEN RunIn(s, b + 1, Digits) ELSE 0
        e == IF fp >= 1 THEN b + 1 + fp ELSE b
    IN IF ip = 0 THEN JFail ELSE JOk(JNum(Sub(s, i, e - 1)), e)

\* dict insertion: a repeated key keeps its place and takes the new value
JPut(members, key, val) ==
    IF \E k \in 1..Len(members) : members[k][1] = key
    THEN [k \in 1..Len(members) |->
            IF members[k][1] = key THEN <<key, val>> ELSE members[k]]
    ELSE Append(members, <<key, val>>)

RECURSIVE JValue(_, _), JElements(_, _, _), JMembers(_, _, _)
JValue(s, i) ==
    IF At(s, i) = "\"" THEN JString(s, i)
    ELSE IF At(s, i) = "[" THEN
        (IF At(s, SkipWs(s, i + 1)) = "]"
         THEN JOk(JArr(<<>>), SkipWs(s, i + 1) + 1)
         ELSE JElements(s, SkipWs(s, i + 1), <<>>))
    ELSE IF At(s, i) = "{" THEN
        (IF At(s, SkipWs(s, i + 1)) = "}"
         THEN JOk(JObj(<<>>), SkipWs(s, i + 1) + 1)
         ELSE JMembers(s, SkipWs(s, i + 1), <<>>))
    ELSE IF StartsAt(s, "true", i) THEN JOk([t |-> "bool", v |-> "true"], i + 4)
    ELSE IF StartsAt(s, "false", i) THEN JOk([t |-> "bool", v |-> "false"], i + 5)
    ELSE IF StartsAt(s, "null", i) THEN JOk(JNull, i + 4)
    ELSE JNumber(s, i)

\* the elements of an array from position i (after '[' or ',')
JElements(s, i, acc) ==
    LET e == JValue(s, i)
        k == SkipWs(s, e.next)
    IN IF ~e.ok THEN JFail
       ELSE IF At(s, k) = "," THEN JElements(s, SkipWs(s, k + 1), Append(acc, e.val))
       ELSE IF At(s, k) = "]" THEN JOk(JArr(Append(acc, e.val)), k + 1)
       ELSE JFail

\* the members of an object from position i (after '{' or ',')
JMembers(s, i, acc) ==
    LET key == JString(s, i)
        c == SkipWs(s, key.next)
        e == JValue(s, SkipWs(s, c + 1))
        k == SkipWs(s, e.next)
    IN IF ~key.ok \/ At(s, c) # ":" THEN JFail
       ELSE IF ~e.ok THEN JFail
       ELSE IF At(s, k) = "," THEN JMembers(s, SkipWs(s, k + 1), JPut(acc, key.val.v, e.val))
       ELSE IF At(s, k) = "}" THEN JOk(JObj(JPut(acc, key.val.v, e.val)), k + 1)
       ELSE JFail

\* json.loads(s): one value, surrounded by whitespace only
json_loads(s) ==
    LET e == JValue(s, SkipWs(s, 1))
    IN IF e.ok /\ SkipWs(s, e.next) = Len(s) + 1 THEN e ELSE JFail

RECURSIVE json_dumps(_), DumpItems(_), DumpMembers(_)
\* json.dumps(v)
json_dumps(v) ==
    IF v.t = "str" THEN "\"" \o v.v \o "\""
    ELSE IF v.t = "arr" THEN "[" \o DumpItems(v.v) \o "]"
    ELSE IF v.t = "obj" THEN "{" \o DumpMembers(v.v) \o "}"
    ELSE IF v.t = "null" THEN "null"
    ELSE v.v

DumpItems(items) ==
    IF Len(items) = 0 THEN ""
    ELSE IF Len(items) = 1 THEN json_dumps(items[1])
    ELSE json_dumps(items[1]) \o ", " \o DumpItems(Tail(items))

DumpMembers(members) ==
    IF Len(members) = 0 THEN ""
    ELSE LET m == "\"" \o members[1][1] \o "\": " \o json_dumps(members[1][2])
         IN IF Len(members) = 1 THEN m ELSE m \o ", " \o DumpMembers(Tail(members))

(***************************************************************************)
(* LLMAgent: the Plan Synthesizer.  A backend call ends as one of          *)
(*   [kind |-> "timeout"]  subprocess.TimeoutExpired                       *)
(*   [kind |-> "error"]    any other exception of subprocess.run           *)
(*   [kind |-> "exit", returncode, stdout]                                 *)
(***************************************************************************)
Timeout == [kind |-> "timeout", returncode |-> 0, stdout |-> ""]
OsError == [kind |-> "error", returncode |-> 0, stdout |-> ""]
Exit(rc, out) == [kind |-> "exit", returncode |-> rc, stdout |-> out]

None == [some |-> FALSE, text |-> "", raised |-> FALSE]
Some(x) == [some |-> TRUE, text |-> x, raised |-> FALSE]
\* an exception that leaves the method
Raise == [some |-> FALSE, text |-> "", raised |-> TRUE]
Returned(steps) == [raised |-> FALSE, plan |-> steps]

\* _call_ollama without its `except subprocess.TimeoutExpired` clause
call_ollama_TimeoutPropagates(available, outcome) ==
    IF ~available THEN None
    ELSE IF outcome.kind = "exit"
    THEN IF outcome.returncode = 0 THEN Some(Strip(outcome.stdout)) ELSE None
    ELSE IF outcome.kind = "timeout" THEN Raise
    ELSE None

\* LLMAgent._call_ollama: the response text, or None; both except clauses
\* (TimeoutExpired, Exception) fall to `return None`
call_ollama(available, outcome) ==
    IF ~available THEN None
    ELSE IF outcome.kind = "exit"
    THEN IF outcome.returncode = 0 THEN Some(Strip(outcome.stdout)) ELSE None
    ELSE IF outcome.kind = "timeout" THEN None
    ELSE None

\* a synthesizer that drops the flag when the backend does not answer
available_after_Invalidating(available, outcome) ==
    IF outcome.kind \in {"timeout", "error"} THEN FALSE ELSE available

\* self.ollama_available after _call_ollama and generate_plan: both only read it,
\* whatever the outcome of the backend process
available_after(available, outcome) == available

\* str.find / str.rfind, 1-based; 0 when absent
FindChar(s, c) == IF Occurrences(s, c) = {} THEN 0 ELSE MinOf(Occurrences(s, c))
RFindChar(s, c) == IF Occurrences(s, c) = {} THEN 0 ELSE MaxOf(Occurrences(s, c))

\* the `except json.JSONDecodeError` block of generate_plan:
\* the text from the first '{' to the last '}' as a single object
ObjectFallback(response) ==
    LET json_start == FindChar(response, "{")
        json_end == RFindChar(response, "}")
        plan_obj == json_loads(Sub(response, json_start, json_end))
    IN IF json_start >= 1 /\ json_end >= json_start
       THEN IF plan_obj.ok
            THEN IF plan_obj.val.t = "arr" THEN plan_obj.val.v ELSE <<plan_obj.val>>
            ELSE <<>>
       ELSE <<>>

\* the `try` block with json_end = response.rfind(']'), the closing bracket cut
ExtractPlan_CutsClosingBracket(response) ==
    LET json_start == FindChar(response, "[")
        json_end == RFindChar(response, "]") - 1
        plan == json_loads(Sub(response, json_start, json_end))
    IN IF json_start >= 1 /\ json_end >= json_start
       THEN IF plan.ok
            THEN IF plan.val.t = "arr" THEN plan.val.v ELSE <<>>
            ELSE ObjectFallback(response)
       ELSE <<>>

\* the `try` block of generate_plan: the text from the first '[' to the last ']'
ExtractPlan(response) ==
    LET json_start == FindChar(response, "[")
        json_end == RFindChar(response, "]")
        plan == json_loads(Sub(response, json_start, json_end))
    IN IF json_start >= 1 /\ json_end >= json_start
       THEN IF plan.ok
            THEN IF plan.val.t = "arr" THEN plan.val.v ELSE <<>>
            ELSE ObjectFallback(response)
       ELSE <<>>

\* LLMAgent.generate_plan: the plan, a sequence of steps (possibly empty)
generate_plan(available, outcome) ==
    LET response == call_ollama(available, outcome)
    IN IF ~available THEN Returned(<<>>)
       ELSE IF response.raised THEN [raised |-> TRUE, plan |-> <<>>]
       ELSE IF ~response.some \/ response.text = "" THEN Returned(<<>>)
       ELSE Returned(ExtractPlan(response.text))

(***************************************************************************)
(* CommandParser.parse with its two entries into the Plan Synthesizer.     *)
(***************************************************************************)
\* the readiness test without is_available()
llm_ready_IgnoresFlag(vis, agent, available) ==
    agent /\ vis

\* `self.llm_agent and self.llm_agent.is_available() and self.vision`
llm_ready(vis, agent, available) ==
    agent /\ available /\ vis

\* CommandParser._parse_with_llm
parse_with_llm(prompt, vis, agent, available, outcome) ==
    LET g == generate_plan(available, outcome)
    IN IF ~vis \/ ~agent
       THEN Bound("synthesis", "LLM not available", "None", <<>>)
       ELSE IF g.raised THEN Raised("synthesis")
       ELSE IF g.plan = <<>>
         THEN Bound("synthesis", "Could not generate plan. Try a simpler command.",
                    "None", <<>>)
       ELSE Bound("synthesis", "Executing intelligent plan...", "_execute_llm_plan",
                  <<JArr(g.plan)>>)

\* the last `return` of parse
UnknownCommand ==
    Bound("unknown",
          "Unknown command. Try: 'open chrome', 'type hello in notepad', 'take screenshot'",
          "None", <<>>)

\* parse without the `if self.llm_agent and ...` block before its last return
parse_NoFallback(prompt, vis, agent, available, outcome) ==
    LET prompt_lower == Strip(Lower(prompt))
        ready == llm_ready(vis, agent, available)
        matched == PatternChain(prompt, vis)
    IN IF ready /\ needs_llm(prompt_lower)
       THEN parse_with_llm(prompt, vis, agent, available, outcome)
       ELSE IF matched.kind # "fall" THEN matched
       ELSE UnknownCommand

\* CommandParser.parse
parse(prompt, vis, agent, available, outcome) ==
    LET ready == llm_ready(vis, agent, available)
    IN IF ready /\ \E prompt_lower \in {Strip(Lower(prompt))} : needs_llm(prompt_lower)
       THEN parse_with_llm(prompt, vis, agent, available, outcome)
       ELSE The({IF matched.kind # "fall" THEN matched
                 ELSE IF ready
                   THEN parse_with_llm(prompt, vis, agent, available, outcome)
                 ELSE UnknownCommand :
                 matched \in {PatternChain(prompt, vis)}})

\* parse reaches _parse_with_llm (line 33 or line 172)
reaches_llm(prompt, vis, agent, available) ==
    /\ llm_ready(vis, agent, available)
    /\ \/ \E prompt_lower \in {Strip(Lower(prompt))} : needs_llm(prompt_lower)
       \/ PatternChain(prompt, vis).kind = "fall"

(***************************************************************************)
(* The Plan Executor (CommandParser._execute_llm_plan), the bound actions  *)
(* and the worker boundary (PromptPilotApp._run_action).  The check mark   *)
(* U+2713 and the ballot U+2717 that open the status strings are written   *)
(* "+" and "x", one character each.                                        *)
(***************************************************************************)
PlanExecuted == "+ Plan executed successfully"
DoneStatus == "+ Done"
ErrorPrefix == "x Error: "
\* str(e)[:40]
MessageLimit == 40

\* `key in step` and step.get(key, default) on a decoded JSON object
dict_has(step, key) == \E k \in 1..Len(step.v) : step.v[k][1] = key
dict_get(step, key, default) ==
    IF dict_has(step, key)
    THEN step.v[CHOOSE k \in 1..Len(step.v) : step.v[k][1] = key][2]
    ELSE default
\* Python truth of a decoded value
truthy(v) ==
    CASE v.t = "null" -> FALSE
      [] v.t = "str" -> v.v # ""
      [] v.t = "num" -> v.v \notin {"0", "0.0", "-0"}
      [] v.t \in {"arr", "obj"} -> Len(v.v) > 0
      [] OTHER -> v.v # "false"

\* VisionEngine.find_text_on_screen: the elements whose text contains the
\* target, ignoring case (OCR taken to be installed)
find_text_on_screen(scr, text) ==
    {elem \in scr : Contains(Lower(elem), Lower(text))}

\* a call of an AutomationEngine method; bbox: the call passes bbox=...
AutomationCall(op, a) == [op |-> op, arg |-> a, bbox |-> FALSE]
ClickCall(a) == [op |-> "click", arg |-> a, bbox |-> TRUE]

\* what AutomationEngine.click(x, y, bbox=bbox) raises: the method takes x and y
\* only
TypeErrorMessage == "AutomationEngine.click() got an unexpected keyword argument 'bbox'"

\* the message a call raises, "" when it returns; failure: what the operating
\* system makes the primitive raise, "" for nothing
CallResult(call, failure) ==
    IF call.op = "click" /\ call.bbox THEN TypeErrorMessage
    ELSE IF call.op = "wait" THEN ""
    ELSE failure

\* the body of the loop of _execute_llm_plan for one step: the automation calls
\* it makes, in order
StepCalls(step, scr) ==
    LET action == dict_get(step, "action", JNull)
    IN IF action = JStr("open_url")
       THEN LET url == dict_get(step, "url", JNull)
            IN IF truthy(url)
               THEN <<AutomationCall("open_url", url), AutomationCall("wait", JNum("2"))>>
               ELSE <<>>
       ELSE IF action = JStr("click")
       THEN (IF dict_has(step, "text")
             THEN LET target == dict_get(step, "text", JNull)
                      positions == IF target.t = "str"
                                   THEN find_text_on_screen(scr, target.v) ELSE {}
                  IN IF positions # {}
                     THEN <<ClickCall(JStr(CHOOSE elem \in positions : TRUE))>>
                     ELSE <<>>
             ELSE IF dict_has(step, "x") /\ dict_has(step, "y")
             THEN <<ClickCall(JArr(<<dict_get(step, "x", JNull),
                                     dict_get(step, "y", JNull)>>))>>
             ELSE <<>>)
            \o <<AutomationCall("wait", JNum("0.5"))>>
       ELSE IF action = JStr("type")
       THEN LET text == dict_get(step, "text", JStr(""))
            IN IF truthy(text)
               THEN <<AutomationCall("type_text", text), AutomationCall("wait", JNum("0.3"))>>
               ELSE <<>>
       ELSE IF action = JStr("wait") \/ action = JStr("wait_for")
       THEN <<AutomationCall("wait",
                dict_get(step, "seconds", dict_get(step, "timeout", JNum("2"))))>>
       ELSE IF action = JStr("press_key")
       THEN LET key == dict_get(step, "key", JNull)
            IN IF truthy(key)
               THEN <<AutomationCall("press_key", key), AutomationCall("wait", JNum("0.3"))>>
               ELSE <<>>
       ELSE <<>>

\* a loop that walks the plan from its end
StepAt_Reversed(plan, i) == plan[Len(plan) + 1 - i]

\* `for step in plan`: the step of the i-th iteration
StepAt(plan, i) == plan[i]

\* how a call of a bound action ends
ActionRaised(msg) == [raised |-> TRUE, isstr |-> FALSE, text |-> msg]
ActionReturned(str) == [raised |-> FALSE, isstr |-> TRUE, text |-> str]
ActionReturnedNone == [raised |-> FALSE, isstr |-> FALSE, text |-> ""]

\* the bound actions other than a plan, run in one piece
AdHocAction(action, args, scr, failure) ==
    IF action = "launch_app"
    THEN IF failure # "" THEN ActionRaised(failure) ELSE ActionReturnedNone
    ELSE IF action = "take_screenshot"
    THEN IF failure # "" THEN ActionRaised(failure)
         ELSE ActionReturned("/home/user/Desktop/screenshot_1.png")
    ELSE IF action = "_find_and_click"
    THEN IF find_text_on_screen(scr, args[1].v) # {}
         THEN ActionRaised(TypeErrorMessage)
         ELSE ActionReturned("x Could not find '" \o args[1].v \o "' on screen")
    ELSE ActionReturnedNone

\* the error status without the [:40] slice
error_msg_Whole(e) ==
    ErrorPrefix \o e

\* f"\u2717 Error: {str(e)[:40]}"
error_msg(e) ==
    ErrorPrefix \o Sub(e, 1, IF Len(e) < MessageLimit THEN Len(e) ELSE MessageLimit)

\* PromptPilotApp._run_action: the one status it posts for an ended action
run_action(ended) ==
    IF ended.raised THEN error_msg(ended.text)
    ELSE IF ended.isstr THEN ended.text
    ELSE DoneStatus

(***************************************************************************)
(* The Screen Analyzer (VisionEngine).  An image is what was on the screen *)
(* when it was captured and the number of the capture; the engine is the   *)
(* record of its fields and of the two histories.                          *)
(***************************************************************************)
\* VisionEngine.__init__(cache_size=3)
cache_size == 3

\* None where an image is expected
NoImage == [content |-> {}, id |-> 0]
NoRetrieval == [op |-> "none", image |-> NoImage, captured |-> FALSE, shown |-> {}]

\* a bounded queue that refuses a new entry when it is full
deque_append_KeepsOldest(d, x, n) == IF Len(d) >= n THEN d ELSE Append(d, x)

\* deque(maxlen=n).append(x): a full deque drops its first (oldest) entry
deque_append(d, x, n) == IF Len(d) >= n THEN Append(Tail(d), x) ELSE Append(d, x)

Engine(shot, shots, texts, taken, read) ==
    [last_screenshot |-> shot, screenshot_cache |-> shots, ocr_cache |-> texts,
     all_shots |-> taken, all_texts |-> read]

\* VisionEngine.capture_screen with `scr` on the screen
capture_screen(v, scr) ==
    LET screenshot == [content |-> scr, id |-> Len(v.all_shots) + 1]
    IN Engine(screenshot, deque_append(v.screenshot_cache, screenshot, cache_size),
              v.ocr_cache, Append(v.all_shots, screenshot), v.all_texts)

RECURSIVE Elements(_)
\* pytesseract.image_to_data: the texts of an image, one element each
Elements(content) ==
    IF content = {} THEN <<>>
    ELSE LET t == CHOOSE x \in content : TRUE
         IN <<t>> \o Elements(content \ {t})

RECURSIVE Lines(_)
\* pytesseract.image_to_string: the texts of an image, one line each
Lines(elements) ==
    IF elements = <<>> THEN "" ELSE Head(elements) \o "\n" \o Lines(Tail(elements))

\* `screenshot = self.last_screenshot or self.capture_screen()` of get_ocr_text and
\* get_ocr_with_positions: an image given is used; without one the last
\* screenshot is used when there is one, and only otherwise the screen is captured
ImageFor(v, screenshot, scr) ==
    IF screenshot # NoImage THEN [v |-> v, image |-> screenshot, captured |-> FALSE]
    ELSE IF v.last_screenshot # NoImage
    THEN [v |-> v, image |-> v.last_screenshot, captured |-> FALSE]
    ELSE [v |-> capture_screen(v, scr), image |-> capture_screen(v, scr).last_screenshot,
          captured |-> TRUE]

\* VisionEngine.get_ocr_text(screenshot); ocr: _ocr_available, raises: pytesseract
\* raises on this machine
get_ocr_text(v, screenshot, scr, ocr, raises) ==
    LET got == ImageFor(v, screenshot, scr)
        text == Lines(Elements(got.image.content))
    IN IF ~ocr \/ raises
       THEN [v |-> got.v, text |-> "", image |-> got.image, captured |-> got.captured]
       ELSE [v |-> Engine(got.v.last_screenshot, got.v.screenshot_cache,
                          deque_append(got.v.ocr_cache,
                                       [text |-> text, image |-> got.image.id], cache_size),
                          got.v.all_shots,
                          Append(got.v.all_texts, [text |-> text, image |-> got.image.id])),
             text |-> text, image |-> got.image, captured |-> got.captured]

\* VisionEngine.get_ocr_with_positions(screenshot)
get_ocr_with_positions(v, screenshot, scr, ocr, raises) ==
    LET got == ImageFor(v, screenshot, scr)
    IN [v |-> got.v,
        elements |-> IF ~ocr \/ raises THEN <<>> ELSE Elements(got.image.content),
        image |-> got.image, captured |-> got.captured]

button_keywords ==
    <<"button", "click", "submit", "save", "cancel", "ok", "login", "logout", "sign in",
      "sign up", "search", "bold", "italic", "underline", "file", "edit", "view">>
input_indicators == <<"input", "enter", "type", "search", "email", "password">>

\* VisionEngine._detect_ui_elements: the type of one element
elem_type(text) ==
    IF \E k \in 1..Len(button_keywords) : Contains(Lower(text), button_keywords[k])
    THEN "button"
    ELSE IF \E k \in 1..Len(input_indicators) : Contains(Lower(text), input_indicators[k])
    THEN "input"
    ELSE "text"

\* str(n) of a small count
str_int(n) == SubSeq("0123456789", n + 1, n + 1)

\* VisionEngine.analyze_screen: capture, then both extractions from that image
analyze_screen(v, scr, ocr, raises) ==
    LET shot == capture_screen(v, scr)
        read == get_ocr_text(shot, shot.last_screenshot, scr, ocr, raises)
        pos == get_ocr_with_positions(read.v, shot.last_screenshot, scr, ocr, raises)
    IN [v |-> pos.v,
        description |-> "Screen captured: " \o str_int(Len(pos.elements))
                        \o " text elements detected",
        ocr_text |-> read.text,
        elements |-> pos.elements,
        image |-> shot.last_screenshot, captured |-> TRUE]

\* VisionEngine.find_text_on_screen as a call: no capture without OCR
find_text_call(v, text, scr, ocr, raises) ==
    IF ~ocr THEN [v |-> v, positions |-> {}, image |-> NoImage, captured |-> FALSE]
    ELSE LET shot == capture_screen(v, scr)
             pos == get_ocr_with_positions(shot, shot.last_screenshot, scr, ocr, raises)
         IN [v |-> pos.v,
             positions |-> {t \in find_text_on_screen(scr, text) :
                              \E k \in 1..Len(pos.elements) : pos.elements[k] = t},
             image |-> shot.last_screenshot, captured |-> TRUE]

RECURSIVE join(_, _)
\* sep.join(texts)
join(sep, texts) ==
    IF texts = <<>> THEN ""
    ELSE IF Len(texts) = 1 THEN texts[1]
    ELSE texts[1] \o sep \o join(sep, Tail(texts))

\* the text of VisionEngine.answer_question_about_screen for an analysis
answer_text(question, analysis) ==
    LET question_lower == Lower(question)
        buttons == SelectSeq(analysis.elements, LAMBDA t : elem_type(t) = "button")
    IN IF Contains(question_lower, "button")
       THEN IF buttons # <<>>
            THEN "Found buttons: "
                 \o join(", ", SubSeq(buttons, 1, IF Len(buttons) < 5 THEN Len(buttons) ELSE 5))
            ELSE "No buttons detected on screen."
       ELSE IF Contains(question_lower, "text") \/ Contains(question_lower, "say")
               \/ Contains(question_lower, "read")
       THEN IF Strip(analysis.ocr_text) # ""
            THEN "Text on screen: " \o analysis.ocr_text
            ELSE "No text detected on screen."
       ELSE IF Contains(question_lower, "element") \/ Contains(question_lower, "item")
       THEN "Found " \o str_int(Len(analysis.elements)) \o " text elements and "
            \o str_int(Len(analysis.elements)) \o " UI elements"
       ELSE "Screen analysis: " \o str_int(Len(analysis.elements))
            \o " elements detected. Use 'read text' or 'find [button]' for details."

\* `locations = ... for i, (x, y) in enumerate(positions[:3])` of _find_on_screen
\* unpacks the (x, y, bbox) tuples of find_text_on_screen into two names
UnpackErrorMessage == "too many values to unpack (expected 2)"

NotAvailableMessage == "Vision engine not available"

\* the vision-based methods of CommandParser, given what the engine found:
\* how the call ends
describe_screen(vis, analysis) ==
    IF ~vis THEN ActionReturned(NotAvailableMessage)
    ELSE ActionReturned("Screen: " \o analysis.description)
find_and_click(vis, target, positions) ==
    IF ~vis THEN ActionReturned(NotAvailableMessage)
    ELSE IF positions # {} THEN ActionRaised(TypeErrorMessage)
    ELSE ActionReturned("x Could not find '" \o target \o "' on screen")
find_on_screen(vis, target, positions) ==
    IF ~vis THEN ActionReturned(NotAvailableMessage)
    ELSE IF positions # {} THEN ActionRaised(UnpackErrorMessage)
    ELSE ActionReturned("'" \o target \o "' not found on screen")
read_screen_text(vis, analysis) ==
    IF ~vis THEN ActionReturned(NotAvailableMessage)
    ELSE ActionReturned(answer_text("what text is on screen", analysis))
answer_question(vis, question, analysis) ==
    IF ~vis THEN ActionReturned(NotAvailableMessage)
    ELSE ActionReturned("Answer: " \o answer_text(question, analysis))

NoAnswer == [intent |-> "none", ended |-> ActionReturnedNone]

(***************************************************************************)
(* Inputs.                                                                 *)
(***************************************************************************)
\* how many suffixes a compound instruction may carry
MaxSuffixes == 1
\* how many steps a synthesized plan may have
MaxSteps == 2
\* how many worker threads a run may start
MaxWorkers == 2
\* how many _listen_loop threads a run may start
MaxLoops == 3
\* how many screen captures the Screen Analyzer may take in a run
MaxShots == 4
\* how many OCR extractions it may cache in a run
MaxTexts == 4
\* how many screen captures a run may take
MaxCaptures == 2

Singles ==
    {"what's on my screen", "describe my screen", "click 'save'", "find ok",
     "locate the login button", "read the text on screen", "tell me about this window",
     "where is the button", "what time is it",
     "create a new google sheet named budget", "new google sheet called plan",
     "open chrome", "  Open Chrome ", "open the chrome app", "open spotify",
     "open android", "open chrome!", "reopen chrome!", "open https://x.io",
     "open x.io", "open it", "open",
     "type 'hello world' in notepad", "type hello in word", "type 'hi",
     "type this in word", "draw a circle in paint", "take a screenshot",
     "take screenshot", "play jazz", "copy 'abc'", "copy \"this and that\"",
     "copy 'abc", "hello there", "update the page",
     "type 'log in now' in notepad", "open whereabouts", "open spotify and play jazz",
     "configure my email and then open it"}

Heads == {"open chrome", "click ok", "type 'hi' in word", "configure my email"}
Suffixes == {" and play jazz", " app"}

RECURSIVE Compounds(_)
\* a head followed by at most n suffixes
Compounds(n) ==
    IF n = 0 THEN Heads
    ELSE Heads \cup {c \o x : c \in Compounds(n - 1), x \in Suffixes}

Instructions == Singles \cup Compounds(MaxSuffixes)

\* the action descriptors a backend may answer with
WaitStep == JObj(<< <<"action", JStr("wait")>>, <<"seconds", JNum("2")>> >>)
ClickStep == JObj(<< <<"action", JStr("click")>>, <<"text", JStr("ok")>> >>)
UrlStep == JObj(<< <<"action", JStr("open_url")>>, <<"url", JStr("https://x.io")>> >>)
StepPool == {WaitStep, ClickStep, UrlStep}

\* JSON a language model may just as well put into its array: a number, a click
\* without a target, an action that does not exist
OtherJson ==
    {JNum("7"), JObj(<< <<"action", JStr("click")>> >>),
     JObj(<< <<"action", JStr("fly")>>, <<"to", JStr("moon")>> >>)}

\* all plans of at most MaxSteps steps
Plans == UNION {[1..n -> StepPool] : n \in 0..MaxSteps}

\* how subprocess.run(["ollama", "run", ...]) may end for parse
BackendOutcomes ==
    {Timeout, OsError, Exit(1, ""), Exit(0, ""), Exit(0, "I cannot help with that."),
     Exit(0, json_dumps(JArr(<<UrlStep>>))),
     Exit(0, "Here is the plan: " \o json_dumps(JArr(<<UrlStep, ClickStep>>)) \o "\n"),
     Exit(0, json_dumps(WaitStep))}
NoCall == [kind |-> "none", returncode |-> 0, stdout |-> ""]

\* the text a backend may put before and after its JSON
ProseBefore == {"", "Sure! Here is the plan: ", "Plan [draft]: ", "Step {1}: "}
ProseAfter == {"", " Hope this helps.", " [end]", "\n"}

\* a response by construction: prose, then a JSON array ("array"), a JSON object
\* ("object") or nothing ("text"), then prose
Givens ==
    {[form |-> "array", before |-> b, steps |-> pl, after |-> a] :
        b \in ProseBefore, pl \in Plans \cup {<<st>> : st \in OtherJson}, a \in ProseAfter}
    \cup {[form |-> "object", before |-> b, steps |-> <<st>>, after |-> a] :
        b \in ProseBefore, st \in StepPool, a \in ProseAfter}
    \cup {[form |-> "text", before |-> b, steps |-> <<>>, after |-> a] :
        b \in ProseBefore \cup {"[{\"action\": \"wait\"", "I cannot help with that."},
        a \in ProseAfter}
NoGiven == [form |-> "none", before |-> "", steps |-> <<>>, after |-> ""]

\* the response text of a given
Response(g) ==
    g.before
    \o (IF g.form = "array" THEN json_dumps(JArr(g.steps))
        ELSE IF g.form = "object" THEN json_dumps(g.steps[1])
        ELSE "")
    \o g.after

\* the instructions submitted to a running application with the backend ready
ExecInstructions == {"create a report", "open chrome", "take screenshot", "click ok"}

TypeStep == JObj(<< <<"action", JStr("type")>>, <<"text", JStr("hi")>> >>)
KeyStep == JObj(<< <<"action", JStr("press_key")>>, <<"key", JStr("enter")>> >>)
XYStep == JObj(<< <<"action", JStr("click")>>, <<"x", JNum("100")>>, <<"y", JNum("200")>> >>)
ScrollStep == JObj(<< <<"action", JStr("scroll")>> >>)

\* the plans the backend answers with
ExecPlans ==
    {<<WaitStep, ClickStep, UrlStep>>, <<ClickStep>>, <<ClickStep, XYStep>>,
     <<TypeStep, ClickStep, KeyStep>>, <<UrlStep, WaitStep>>, <<ScrollStep, TypeStep>>,
     <<>>}
ExecOutcomes == {Exit(0, json_dumps(JArr(steps))) : steps \in ExecPlans} \cup {Timeout}

\* what OCR reads on the screen: nothing, or a button labelled OK
Screens == {{}, {"OK"}}

\* what recognize_google makes of the audio: a transcription, or an exception
Transcription == "open chrome"
RecognitionOutcomes == {"text", "UnknownValueError", "RequestError"}
\* how recognizer.listen ends: with audio, or with WaitTimeoutError
ListenOutcomes == {"audio", "WaitTimeoutError"}

\* what the vision-based intents look for and ask
Targets == {"ok"}
Questions == {"what is on my screen", "how many buttons on screen"}

\* str(e) of what the operating system makes a primitive raise; "": nothing
NoFailure == ""
OsFailures ==
    {"[Errno 13] Permission denied",
     "PyAutoGUI fail-safe triggered from mouse moving to a corner of the screen."}

\* VisionEngine.__init__ with pytesseract installed, before any capture
VisionAtRest ==
    /\ ocr_available = TRUE
    /\ last_screenshot = NoImage
    /\ screenshot_cache = <<>>
    /\ ocr_cache = <<>>
    /\ all_shots = <<>>
    /\ all_texts = <<>>
    /\ retrieved = NoRetrieval
    /\ answer = NoAnswer

\* VoiceRecognizer.__init__: not listening, no thread
VoiceAtRest ==
    /\ microphone = TRUE
    /\ is_listening = FALSE
    /\ loops = <<>>
    /\ delivered = <<>>

NoResult == [kind |-> "none", matcher |-> "none", status |-> "", action |-> "None",
             args |-> <<>>]
Call(r, flag) == [result |-> r, available |-> flag]

Init ==
    /\ app = "start"
    /\ vision \in BOOLEAN
    /\ llm_agent = FALSE
    /\ ollama_available = FALSE
    /\ text_input \in Instructions
    /\ last = Call(NoResult, FALSE)
    /\ prev = Call(NoResult, FALSE)
    /\ backend_result = NoCall
    /\ captures = 0
    /\ given = NoGiven
    /\ returned_plan = <<>>
    /\ synth_pc = "idle"
    /\ probe = "none"
    /\ pulls = 0
    /\ ui_pc = "idle"
    /\ workers = <<>>
    /\ screen = {}
    /\ VisionAtRest
    /\ VoiceAtRest

\* CommandParser.__init__: `LLMAgent() if vision else None`.  LLMAgent.__init__
\* assigns ollama_available from _ensure_ollama(); when the probe succeeds,
\* _ensure_ollama calls ensure_model_available(), which reads
\* self.ollama_available before it was ever assigned: AttributeError.
\* The error is raised before ensure_model_available runs any process, so
\* construction never pulls.  `probed`: a call of _check_ollama returned True.
Construct(probed) ==
    /\ app = "start"
    /\ IF ~vision
       THEN /\ app' = "running" /\ llm_agent' = FALSE /\ ollama_available' = FALSE
            /\ probe' = "none"
       ELSE IF probed
       THEN /\ app' = "crashed" /\ UNCHANGED <<llm_agent, ollama_available>>
            /\ probe' = "ok"
       ELSE /\ app' = "running" /\ llm_agent' = TRUE /\ ollama_available' = FALSE
            /\ probe' = "failed"
    /\ UNCHANGED <<vision, text_input, last, prev, backend_result, captures, pulls>>
    /\ UNCHANGED <<synth_vars, exec_vars, vision_vars, voice_vars>>

\* PromptPilotApp._show_install_dialog, dialog accepted: the flag is set to
\* what the installer finds, and when it is true ensure_model_available lists
\* the local models and pulls the pinned one if it is not among them
InstallFlow(installed, present) ==
    /\ app = "running"
    /\ llm_agent
    /\ ollama_available' = installed
    /\ pulls' = IF installed /\ ~present THEN 1 ELSE 0
    /\ UNCHANGED <<app, vision, llm_agent, text_input, last, prev, backend_result, captures,
                   probe>>
    /\ UNCHANGED <<synth_vars, exec_vars, vision_vars, voice_vars>>

\* PromptPilotApp._execute_prompt up to the return of parser.parse(prompt);
\* _parse_with_llm takes a screen capture (analyze_screen, taken to succeed) and
\* calls generate_plan, which runs the backend when the flag is set
Parse ==
    /\ app = "running"
    /\ \E uses \in {reaches_llm(text_input, vision, llm_agent, ollama_available)} :
          /\ uses => captures < MaxCaptures
          /\ captures' = IF uses THEN captures + 1 ELSE captures
          /\ \E o \in IF uses /\ ollama_available THEN BackendOutcomes ELSE {NoCall} :
               /\ last' = Call(parse(text_input, vision, llm_agent, ollama_available, o),
                               ollama_available)
               /\ backend_result' = o
    /\ ollama_available' = available_after(ollama_available, backend_result')
    /\ prev' = last
    /\ pulls' = 0
    /\ UNCHANGED <<app, vision, llm_agent, text_input, probe>>
    /\ UNCHANGED <<synth_vars, exec_vars, vision_vars, voice_vars>>

Next ==
    \/ \E probed \in BOOLEAN : Construct(probed)
    \/ \E installed \in BOOLEAN :
         \E present \in IF installed THEN BOOLEAN ELSE {FALSE} :
             InstallFlow(installed, present)
    \/ Parse

Spec == Init /\ [][Next]_vars

(***************************************************************************)
(* The Plan Synthesizer on its own: one response, one generate_plan call.  *)
(***************************************************************************)
InitSynth ==
    /\ app = "running"
    /\ vision = TRUE
    /\ llm_agent = TRUE
    /\ ollama_available = TRUE
    /\ text_input = "hello"
    /\ last = Call(NoResult, FALSE)
    /\ prev = Call(NoResult, FALSE)
    /\ backend_result = NoCall
    /\ captures = 0
    /\ given \in Givens
    /\ returned_plan = <<>>
    /\ synth_pc = "idle"
    /\ probe = "none"
    /\ pulls = 0
    /\ ui_pc = "idle"
    /\ workers = <<>>
    /\ screen = {}
    /\ VisionAtRest
    /\ VoiceAtRest

\* subprocess.run(["ollama", "run", model, prompt]) exits 0 with the response
BackendAnswers ==
    /\ synth_pc = "idle"
    /\ backend_result' = Exit(0, Response(given))
    /\ synth_pc' = "called"
    /\ UNCHANGED <<app, vision, llm_agent, ollama_available, text_input, last, prev,
                   captures, given, returned_plan, probe, pulls, exec_vars, vision_vars,
                   voice_vars>>

\* LLMAgent.generate_plan returns
Synthesize ==
    /\ synth_pc = "called"
    /\ returned_plan' = generate_plan(ollama_available, backend_result).plan
    /\ synth_pc' = "returned"
    /\ UNCHANGED <<app, vision, llm_agent, ollama_available, text_input, last, prev,
                   backend_result, captures, given, probe, pulls, exec_vars, vision_vars,
                   voice_vars>>

NextSynth == BackendAnswers \/ Synthesize

SpecSynth == InitSynth /\ [][NextSynth]_vars

(***************************************************************************)
(* The application at work: _execute_prompt on the UI thread, one worker    *)
(* thread per bound action, the Plan Executor step by step.                *)
(***************************************************************************)
\* a resolver that runs the action it binds: the thread starts with a call made
NewWorker_AlreadyCalled(action, args) ==
    [pc |-> "running", action |-> action, args |-> args, idx |-> 0, pending |-> <<>>,
     log |-> <<[step |-> 0, call |-> AutomationCall(action, JNull), at |-> 0]>>,
     error |-> "", posts |-> <<>>]

\* threading.Thread(target=self._run_action, args=(action, args)): idx is the
\* position of the loop of _execute_llm_plan, pending the calls left in the
\* current step, log the calls that returned, error the message raised, posts the
\* statuses posted to the panel; a logged call carries its position `at` among the
\* calls of all threads
NewWorker(action, args) ==
    [pc |-> "running", action |-> action, args |-> args, idx |-> 0, pending |-> <<>>,
     log |-> <<>>, error |-> "", posts |-> <<>>]
PlanOf(worker) == worker.args[1].v
Workers == 1..Len(workers)

InitExec ==
    /\ app = "running"
    /\ vision = TRUE
    /\ llm_agent = TRUE
    /\ ollama_available = TRUE
    /\ text_input \in ExecInstructions
    /\ last = Call(NoResult, FALSE)
    /\ prev = Call(NoResult, FALSE)
    /\ backend_result = NoCall
    /\ captures = 0
    /\ given = NoGiven
    /\ returned_plan = <<>>
    /\ synth_pc = "idle"
    /\ probe = "failed"
    /\ pulls = 0
    /\ ui_pc = "idle"
    /\ workers = <<>>
    /\ screen \in Screens
    /\ VisionAtRest
    /\ VoiceAtRest

\* _on_send_clicked: the UI thread enters _execute_prompt and calls
\* parser.parse(prompt)
Submit ==
    /\ ui_pc = "idle"
    /\ Strip(text_input) # ""
    /\ Len(workers) < MaxWorkers
    /\ captures < MaxCaptures
    /\ ui_pc' = "resolving"
    /\ UNCHANGED <<app, vision, llm_agent, ollama_available, text_input, last, prev,
                   backend_result, captures, probe, pulls, workers, screen, synth_vars,
                   vision_vars, voice_vars>>

\* parser.parse returns to _execute_prompt on the UI thread, which sets the status
\* and starts a thread when the action is not None
Resolved ==
    /\ ui_pc = "resolving"
    /\ \E uses \in {reaches_llm(text_input, vision, llm_agent, ollama_available)} :
          /\ captures' = IF uses THEN captures + 1 ELSE captures
          /\ \E o \in IF uses /\ ollama_available THEN ExecOutcomes ELSE {NoCall} :
               /\ last' = Call(parse(text_input, vision, llm_agent, ollama_available, o),
                               ollama_available)
               /\ backend_result' = o
    /\ workers' = IF last'.result.kind = "return" /\ last'.result.action # "None"
                  THEN Append(workers, NewWorker(last'.result.action, last'.result.args))
                  ELSE workers
    /\ ollama_available' = available_after(ollama_available, backend_result')
    /\ prev' = last
    /\ ui_pc' = "idle"
    /\ UNCHANGED <<app, vision, llm_agent, text_input, probe, pulls,
                   screen, synth_vars, vision_vars, voice_vars>>

RECURSIVE CallsSoFar(_)
\* the automation calls that have returned so far, over all threads
CallsSoFar(threads) ==
    IF threads = <<>> THEN 0 ELSE Len(Head(threads).log) + CallsSoFar(Tail(threads))

UnchangedByWorker ==
    UNCHANGED <<app, vision, llm_agent, ollama_available, text_input, last, prev,
                backend_result, captures, probe, pulls, ui_pc, screen, synth_vars,
                vision_vars, voice_vars>>

\* _execute_llm_plan: the loop takes the next step
BeginStep(w) ==
    /\ workers[w].pc = "running"
    /\ workers[w].action = "_execute_llm_plan"
    /\ workers[w].pending = <<>>
    /\ workers[w].idx < Len(PlanOf(workers[w]))
    /\ workers' = [workers EXCEPT
                     ![w].idx = @ + 1,
                     ![w].pending = StepCalls(StepAt(PlanOf(workers[w]), workers[w].idx + 1),
                                              screen)]
    /\ UnchangedByWorker

\* an executor that holds a lock for the whole plan: a call waits while another
\* thread is between two calls
Primitive_Exclusive(w, failure) ==
    /\ workers[w].pc = "running"
    /\ workers[w].pending # <<>>
    /\ \A other \in Workers \ {w} :
          workers[other].pc # "running" \/ workers[other].log = <<>>
    /\ LET call == Head(workers[w].pending)
           e == CallResult(call, failure)
       IN workers' =
            IF e = ""
            THEN [workers EXCEPT
                    ![w].pending = Tail(@),
                    ![w].log = Append(@, [step |-> workers[w].idx, call |-> call,
                                          at |-> CallsSoFar(workers) + 1])]
            ELSE [workers EXCEPT
                    ![w].pc = "posted",
                    ![w].error = e,
                    ![w].posts = Append(@, run_action(ActionRaised(e)))]
    /\ UnchangedByWorker

\* _execute_llm_plan: the next automation call of the current step returns, or
\* raises through _execute_llm_plan into the except clause of _run_action
Primitive(w, failure) ==
    /\ workers[w].pc = "running"
    /\ workers[w].pending # <<>>
    /\ LET call == Head(workers[w].pending)
           e == CallResult(call, failure)
       IN workers' =
            IF e = ""
            THEN [workers EXCEPT
                    ![w].pending = Tail(@),
                    ![w].log = Append(@, [step |-> workers[w].idx, call |-> call,
                                          at |-> CallsSoFar(workers) + 1])]
            ELSE [workers EXCEPT
                    ![w].pc = "posted",
                    ![w].error = e,
                    ![w].posts = Append(@, run_action(ActionRaised(e)))]
    /\ UnchangedByWorker

\* _execute_llm_plan returns after the last step and _run_action posts its string
PlanReturns(w) ==
    /\ workers[w].pc = "running"
    /\ workers[w].action = "_execute_llm_plan"
    /\ workers[w].pending = <<>>
    /\ workers[w].idx = Len(PlanOf(workers[w]))
    /\ workers' = [workers EXCEPT
                     ![w].pc = "posted",
                     ![w].posts = Append(@, run_action(ActionReturned(PlanExecuted)))]
    /\ UnchangedByWorker

\* _run_action with a bound action other than a plan
RunAdHoc(w, failure) ==
    /\ workers[w].pc = "running"
    /\ workers[w].action # "_execute_llm_plan"
    /\ LET ended == AdHocAction(workers[w].action, workers[w].args, screen, failure)
       IN workers' = [workers EXCEPT
                        ![w].pc = "posted",
                        ![w].error = IF ended.raised THEN ended.text ELSE "",
                        ![w].posts = Append(@, run_action(ended))]
    /\ UnchangedByWorker

NextExec ==
    \/ Submit
    \/ Resolved
    \/ \E w \in Workers : BeginStep(w)
    \/ \E w \in Workers : \E failure \in OsFailures \cup {NoFailure} : Primitive(w, failure)
    \/ \E w \in Workers : PlanReturns(w)
    \/ \E w \in Workers : \E failure \in OsFailures \cup {NoFailure} : RunAdHoc(w, failure)

SpecExec == InitExec /\ [][NextExec]_vars

(***************************************************************************)
(* The Screen Analyzer at work: the screen changes, the engine is asked    *)
(* for the screen state, the vision-based intents run.                     *)
(***************************************************************************)
EngineNow == Engine(last_screenshot, screenshot_cache, ocr_cache, all_shots, all_texts)
EngineBecomes(v) ==
    /\ last_screenshot' = v.last_screenshot
    /\ screenshot_cache' = v.screenshot_cache
    /\ ocr_cache' = v.ocr_cache
    /\ all_shots' = v.all_shots
    /\ all_texts' = v.all_texts
Retrieval(op, got) ==
    [op |-> op, image |-> got.image, captured |-> got.captured, shown |-> screen]
UnchangedByVision ==
    UNCHANGED <<app, vision, llm_agent, ollama_available, text_input, last, prev,
                backend_result, captures, probe, pulls, ui_pc, workers, synth_vars,
                voice_vars, ocr_available>>

InitVision ==
    /\ app = "running"
    /\ vision = TRUE
    /\ llm_agent = FALSE
    /\ ollama_available = FALSE
    /\ text_input = ""
    /\ last = Call(NoResult, FALSE)
    /\ prev = Call(NoResult, FALSE)
    /\ backend_result = NoCall
    /\ captures = 0
    /\ given = NoGiven
    /\ returned_plan = <<>>
    /\ synth_pc = "idle"
    /\ probe = "failed"
    /\ pulls = 0
    /\ ui_pc = "idle"
    /\ workers = <<>>
    /\ screen \in Screens
    /\ ocr_available \in BOOLEAN
    /\ last_screenshot = NoImage
    /\ screenshot_cache = <<>>
    /\ ocr_cache = <<>>
    /\ all_shots = <<>>
    /\ all_texts = <<>>
    /\ retrieved = NoRetrieval
    /\ answer = NoAnswer
    /\ VoiceAtRest

\* something else comes to the screen
ScreenChanges ==
    /\ \E scr \in Screens \ {screen} : screen' = scr
    /\ UNCHANGED <<last_screenshot, screenshot_cache, ocr_cache, all_shots, all_texts,
                   retrieved, answer>>
    /\ UnchangedByVision

\* VisionEngine.get_ocr_text() without an image
GetOcrText(raises) ==
    /\ Len(all_shots) < MaxShots /\ Len(all_texts) < MaxTexts
    /\ LET got == get_ocr_text(EngineNow, NoImage, screen, ocr_available, raises)
       IN EngineBecomes(got.v) /\ retrieved' = Retrieval("get_ocr_text", got)
    /\ UNCHANGED <<screen, answer>>
    /\ UnchangedByVision

\* VisionEngine.get_ocr_with_positions() without an image
GetOcrWithPositions(raises) ==
    /\ Len(all_shots) < MaxShots /\ Len(all_texts) < MaxTexts
    /\ LET got == get_ocr_with_positions(EngineNow, NoImage, screen, ocr_available, raises)
       IN EngineBecomes(got.v) /\ retrieved' = Retrieval("get_ocr_with_positions", got)
    /\ UNCHANGED <<screen, answer>>
    /\ UnchangedByVision

\* CommandParser._describe_screen
DescribeScreen(raises) ==
    /\ Len(all_shots) < MaxShots /\ Len(all_texts) < MaxTexts
    /\ LET got == analyze_screen(EngineNow, screen, ocr_available, raises)
       IN /\ EngineBecomes(got.v) /\ retrieved' = Retrieval("analyze_screen", got)
          /\ answer' = [intent |-> "describe_screen", ended |-> describe_screen(vision, got)]
    /\ UNCHANGED screen
    /\ UnchangedByVision

\* CommandParser._find_and_click
FindAndClick(target, raises) ==
    /\ Len(all_shots) < MaxShots /\ Len(all_texts) < MaxTexts
    /\ LET got == find_text_call(EngineNow, target, screen, ocr_available, raises)
       IN /\ EngineBecomes(got.v) /\ retrieved' = Retrieval("find_text_on_screen", got)
          /\ answer' = [intent |-> "click",
                        ended |-> find_and_click(vision, target, got.positions)]
    /\ UNCHANGED screen
    /\ UnchangedByVision

\* CommandParser._find_on_screen
FindOnScreen(target, raises) ==
    /\ Len(all_shots) < MaxShots /\ Len(all_texts) < MaxTexts
    /\ LET got == find_text_call(EngineNow, target, screen, ocr_available, raises)
       IN /\ EngineBecomes(got.v) /\ retrieved' = Retrieval("find_text_on_screen", got)
          /\ answer' = [intent |-> "find",
                        ended |-> find_on_screen(vision, target, got.positions)]
    /\ UNCHANGED screen
    /\ UnchangedByVision

\* CommandParser._read_screen_text
ReadScreenText(raises) ==
    /\ Len(all_shots) < MaxShots /\ Len(all_texts) < MaxTexts
    /\ LET got == analyze_screen(EngineNow, screen, ocr_available, raises)
       IN /\ EngineBecomes(got.v) /\ retrieved' = Retrieval("analyze_screen", got)
          /\ answer' = [intent |-> "read_text", ended |-> read_screen_text(vision, got)]
    /\ UNCHANGED screen
    /\ UnchangedByVision

\* CommandParser._answer_question
AnswerQuestion(question, raises) ==
    /\ Len(all_shots) < MaxShots /\ Len(all_texts) < MaxTexts
    /\ LET got == analyze_screen(EngineNow, screen, ocr_available, raises)
       IN /\ EngineBecomes(got.v) /\ retrieved' = Retrieval("analyze_screen", got)
          /\ answer' = [intent |-> "screen_question",
                        ended |-> answer_question(vision, question, got)]
    /\ UNCHANGED screen
    /\ UnchangedByVision

\* pytesseract can only raise where it is called
OcrRaises == IF ocr_available THEN BOOLEAN ELSE {FALSE}

NextVision ==
    \/ ScreenChanges
    \/ \E raises \in OcrRaises : GetOcrText(raises)
    \/ \E raises \in OcrRaises : GetOcrWithPositions(raises)
    \/ \E raises \in OcrRaises : DescribeScreen(raises)
    \/ \E target \in Targets : \E raises \in OcrRaises : FindAndClick(target, raises)
    \/ \E target \in Targets : \E raises \in OcrRaises : FindOnScreen(target, raises)
    \/ \E raises \in OcrRaises : ReadScreenText(raises)
    \/ \E question \in Questions : \E raises \in OcrRaises : AnswerQuestion(question, raises)

SpecVision == InitVision /\ [][NextVision]_vars

(***************************************************************************)
(* The voice recognizer: start_listening and stop_listening on the UI      *)
(* thread, one _listen_loop thread per start.  A loop is at "started",     *)
(* "listening" (inside `with self.microphone`), "recognizing"              *)
(* (recognize_google in flight), "finishing" (before the finally clause)   *)
(* or "done"; `stopped` is where it was when stop_listening was called.    *)
(***************************************************************************)
NewLoop == [pc |-> "started", stopped |-> "no"]
Loops == 1..Len(loops)
InFlight(l) == loops[l].pc # "done"

\* self.callback(text) made by loop l (0: by start_listening itself)
Callback(l, text) ==
    [loop |-> l, text |-> text, stopped |-> IF l = 0 THEN "no" ELSE loops[l].stopped]

UnchangedByVoice ==
    UNCHANGED <<app, vision, llm_agent, ollama_available, text_input, last, prev,
                backend_result, captures, probe, pulls, synth_vars, exec_vars,
                vision_vars, microphone>>

InitVoice ==
    /\ app = "running"
    /\ vision = TRUE
    /\ llm_agent = FALSE
    /\ ollama_available = FALSE
    /\ text_input = ""
    /\ last = Call(NoResult, FALSE)
    /\ prev = Call(NoResult, FALSE)
    /\ backend_result = NoCall
    /\ captures = 0
    /\ given = NoGiven
    /\ returned_plan = <<>>
    /\ synth_pc = "idle"
    /\ probe = "failed"
    /\ pulls = 0
    /\ ui_pc = "idle"
    /\ workers = <<>>
    /\ screen = {}
    /\ VisionAtRest
    /\ microphone \in BOOLEAN
    /\ is_listening = FALSE
    /\ loops = <<>>
    /\ delivered = <<>>

\* VoiceRecognizer.start_listening(callback)
StartListening ==
    /\ Len(loops) < MaxLoops
    /\ IF is_listening
       THEN UNCHANGED <<is_listening, loops, delivered>>
       ELSE IF ~microphone
       THEN /\ Len(delivered) < MaxLoops
            /\ delivered' = Append(delivered, Callback(0, "Microphone not available"))
            /\ UNCHANGED <<is_listening, loops>>
       ELSE /\ is_listening' = TRUE
            /\ loops' = Append(loops, NewLoop)
            /\ UNCHANGED delivered
    /\ UnchangedByVoice

\* a stop that also ends the threads in flight
StopListening_Interrupting ==
    /\ is_listening' = FALSE
    /\ loops' = [l \in Loops |-> [pc |-> "done", stopped |-> loops[l].pc]]
    /\ UNCHANGED delivered
    /\ UnchangedByVoice

\* VoiceRecognizer.stop_listening(): `self.is_listening = False`, nothing else
StopListening ==
    /\ is_listening' = FALSE
    /\ loops' = [l \in Loops |->
                   IF InFlight(l) /\ loops[l].stopped = "no"
                   THEN [loops[l] EXCEPT !.stopped = loops[l].pc] ELSE loops[l]]
    /\ UNCHANGED delivered
    /\ UnchangedByVoice

\* _listen_loop enters `with self.microphone as source` and calls back
\* "Listening..."; held: another loop is inside the with block, and entering the
\* microphone a second time either raises (into `except Exception`) or goes on
LoopEnters(l, raises) ==
    /\ loops[l].pc = "started"
    /\ raises => \E other \in Loops : loops[other].pc = "listening"
    /\ IF raises
       THEN /\ loops' = [loops EXCEPT ![l].pc = "finishing"]
            /\ delivered' = Append(delivered, Callback(l, "Error: already in use"))
       ELSE /\ loops' = [loops EXCEPT ![l].pc = "listening"]
            /\ delivered' = Append(delivered, Callback(l, "Listening..."))
    /\ UNCHANGED is_listening
    /\ UnchangedByVoice

\* self.recognizer.listen(source, timeout=5, phrase_time_limit=10) returns or
\* raises WaitTimeoutError
ListenReturns(l, outcome) ==
    /\ loops[l].pc = "listening"
    /\ IF outcome = "audio"
       THEN /\ loops' = [loops EXCEPT ![l].pc = "recognizing"]
            /\ UNCHANGED delivered
       ELSE /\ loops' = [loops EXCEPT ![l].pc = "finishing"]
            /\ delivered' = Append(delivered, Callback(l, "Listening timeout"))
    /\ UNCHANGED is_listening
    /\ UnchangedByVoice

\* self.recognizer.recognize_google(audio) returns or raises; the text is passed
\* on `if self.callback and self.is_listening`
RecognitionReturns(l, outcome) ==
    /\ loops[l].pc = "recognizing"
    /\ delivered' =
         IF outcome = "text"
         THEN IF is_listening THEN Append(delivered, Callback(l, Transcription))
              ELSE delivered
         ELSE IF outcome = "UnknownValueError"
         THEN Append(delivered, Callback(l, "Could not understand audio"))
         ELSE Append(delivered, Callback(l, "Recognition error: connection failed"))
    /\ loops' = [loops EXCEPT ![l].pc = "finishing"]
    /\ UNCHANGED is_listening
    /\ UnchangedByVoice

\* the finally clause of _listen_loop: `self.is_listening = False`
LoopFinishes(l) ==
    /\ loops[l].pc = "finishing"
    /\ is_listening' = FALSE
    /\ loops' = [loops EXCEPT ![l].pc = "done"]
    /\ UNCHANGED delivered
    /\ UnchangedByVoice

NextVoice ==
    \/ StartListening
    \/ StopListening
    \/ \E l \in Loops : \E raises \in BOOLEAN : LoopEnters(l, raises)
    \/ \E l \in Loops : \E outcome \in ListenOutcomes : ListenReturns(l, outcome)
    \/ \E l \in Loops : \E outcome \in RecognitionOutcomes : RecognitionReturns(l, outcome)
    \/ \E l \in Loops : LoopFinishes(l)

SpecVoice == InitVoice /\ [][NextVoice]_vars

(***************************************************************************)
(* Properties of the Intent Resolver.                                      *)
(***************************************************************************)
\* the lower-cased, trimmed instruction
Lowered == Strip(Lower(text_input))
\* a parse has returned (or raised)
Parsed == last.result.kind # "none"
\* the backend was available to the last parse
WasReady == llm_ready(vision, llm_agent, last.available)

\* the matchers in the order the specification lists them
ListedOrder ==
    <<"screen_description", "find_click_locate", "read_text", "screen_question",
      "structured_creation", "launch_application", "type_in_application", "drawing",
      "screenshot", "media_player", "direct_url", "clipboard_copy", "bare_open">>
VisionFamilies == {"screen_description", "find_click_locate", "read_text", "screen_question"}

\* the pattern of a matcher matches the lowered instruction, extraction included
Fires(m) ==
    CASE m = "screen_description" -> ScreenDescriptionRe(Lowered)
      [] m = "find_click_locate" -> FindClickLocateRe(Lowered).ok
      [] m = "read_text" -> ReadTextRe(Lowered)
      [] m = "screen_question" -> ScreenQuestionRe(Lowered)
      [] m = "structured_creation" -> GoogleSheetRe(Lowered)
      [] m = "launch_application" -> OpenTriggerRe(Lowered) /\ OpenExtractRe(Lowered).ok
      [] m = "type_in_application" -> TypeQuotedRe(Lowered).ok \/ TypeInRe(Lowered).ok
      [] m = "drawing" -> DrawCircleRe(Lowered)
      [] m = "screenshot" -> ScreenshotRe(Lowered)
      [] m = "media_player" -> SpotifyRe(Lowered)
      [] m = "direct_url" -> UrlRe(Lowered).ok
      [] m = "clipboard_copy" -> CopyQuotedRe(Lowered).ok
      [] m = "bare_open" -> StartsAt(Lowered, "open ", 1)

\* the matcher is evaluated at all (vision families need vision) and fires
EnabledFires(m) == (m \in VisionFamilies => vision) /\ Fires(m)
Firing == {k \in 1..Len(ListedOrder) : EnabledFires(ListedOrder[k])}
\* the first matcher of the listed order that fires, "none" when none does
FirstFiring == IF Firing = {} THEN "none" ELSE ListedOrder[MinOf(Firing)]

\* C1: with vision enabled, a parse that returns a fixed matcher's action returns
\* the action of the first matcher, in the listed order, that fires on the input.
C1_FirstMatcherWins ==
    (vision /\ Parsed /\ last.result.matcher \notin {"synthesis", "unknown"})
        => last.result.matcher = FirstFiring

\* C1 witness: two matchers fire (launch-application and media-player) and the
\* earlier one was returned.
C1_Witness ==
    /\ vision /\ Parsed
    /\ Fires("launch_application") /\ Fires("media_player")
    /\ last.result.matcher = "launch_application"

\* the words the specification gives for the complexity flag
FlagWords == {"then", "and", "after", "next",
              "create", "build", "configure", "add", "remove", "update"}
Flagged == \E w \in FlagWords : Contains(Lowered, w)
\* open <word>, take screenshot, copy "<text>": exempt from the complexity check
SimpleForm ==
    SimpleOpenRe(Lowered) \/ SimpleScreenshotRe(Lowered) \/ SimpleCopyRe(Lowered)
Synthesized == last.result.matcher = "synthesis" /\ backend_result.kind # "none"

\* C2 as stated: a flagged instruction goes to synthesis when the backend is
\* available.
C2_FlaggedGoesToSynthesis ==
    (Parsed /\ WasReady /\ Flagged) => Synthesized

\* C2 amended: a flagged instruction that is not one of the simple forms goes to
\* synthesis when the backend is available, whatever pattern it matches.
C2_FlaggedNotSimpleGoesToSynthesis ==
    (Parsed /\ WasReady /\ Flagged /\ ~SimpleForm) => Synthesized

\* C2 witness: a flagged instruction on which a fixed matcher fires went to
\* synthesis.
C2_Witness ==
    /\ Parsed /\ WasReady /\ Flagged /\ ~SimpleForm
    /\ FirstFiring = "launch_application"
    /\ Synthesized

HelpMessage ==
    "Unknown command. Try: 'open chrome', 'type hello in notepad', 'take screenshot'"
NullAction == last.result.kind = "return" /\ last.result.action = "None"

\* C3: with the backend unavailable, a flagged instruction gets a null action and
\* a guidance message, and parse does not raise.
C3_FlaggedUnavailableIsNull ==
    (Parsed /\ ~WasReady /\ Flagged)
        => NullAction /\ last.result.status \in {HelpMessage, "LLM not available"}

\* C4: an instruction on which a fixed matcher fires gets a non-null action,
\* whatever the backend availability and the outcome of synthesis.
C4_MatchIsNeverNull ==
    (Parsed /\ FirstFiring # "none") => last.result.kind = "return" /\ last.result.action # "None"

C6_NoMatchForwardsOrHelps ==
    (Parsed /\ FirstFiring = "none")
        => IF WasReady
           THEN Synthesized /\ last.result.status # HelpMessage
           ELSE /\ NullAction /\ last.result.status = HelpMessage
                /\ last.result.matcher = "unknown" /\ backend_result.kind = "none"

\* C6 witness: nothing fired and the backend produced a plan.
C6_Witness ==
    /\ Parsed /\ FirstFiring = "none" /\ WasReady
    /\ last.result.action = "_execute_llm_plan"

\* C7: in pattern-only mode every parse returns a (status, action) pair, and an
\* open trigger whose extraction fails leaves the decision to the matchers after
\* it.
C7_FailedExtractionFallsThrough ==
    (Parsed /\ ~WasReady)
        => /\ last.result.kind = "return"
           /\ (OpenTriggerRe(Lowered) /\ ~OpenExtractRe(Lowered).ok)
                => /\ last.result.matcher # "launch_application"
                   /\ last.result.matcher =
                        (IF FirstFiring = "none" THEN "unknown" ELSE FirstFiring)

\* C7 witness: the open trigger matched, its extraction failed, and the
\* bare-open fallback bound the action.
C7_Witness ==
    /\ Parsed /\ ~WasReady
    /\ OpenTriggerRe(Lowered) /\ ~OpenExtractRe(Lowered).ok
    /\ last.result.matcher = "bare_open"

\* every way the claim lists for synthesis to fail: timeout (or another error of
\* the call), non-zero exit, empty output, output with nothing that parses
ArrayBlock(text) == Sub(text, FindChar(text, "["), RFindChar(text, "]"))
ObjectBlock(text) == Sub(text, FindChar(text, "{"), RFindChar(text, "}"))
HasArray(text) ==
    /\ FindChar(text, "[") >= 1
    /\ json_loads(ArrayBlock(text)).ok /\ json_loads(ArrayBlock(text)).val.t = "arr"
HasObject(text) ==
    /\ FindChar(text, "{") >= 1
    /\ json_loads(ObjectBlock(text)).ok /\ json_loads(ObjectBlock(text)).val.t = "obj"
Failure(o) ==
    \/ o.kind \in {"timeout", "error"}
    \/ o.kind = "exit" /\ o.returncode # 0
    \/ o.kind = "exit" /\ Strip(o.stdout) = ""
    \/ o.kind = "exit" /\ ~HasArray(Strip(o.stdout)) /\ ~HasObject(Strip(o.stdout))
CouldNotGenerate == "Could not generate plan. Try a simpler command."

\* C10: when the backend call times out, exits non-zero, prints nothing or prints
\* text that cannot be parsed, generate_plan returns the empty sequence without
\* raising, and parse returns the null action with the could-not-generate status.
C10_SynthesisFailureIsRecoverable ==
    (Parsed /\ Synthesized /\ Failure(backend_result))
        => /\ generate_plan(last.available, backend_result) = Returned(<<>>)
           /\ NullAction /\ last.result.status = CouldNotGenerate

\* C10 witness: the backend call timed out during a synthesis and parse returned
\* the could-not-generate status.
C10_Witness ==
    /\ Parsed /\ Synthesized /\ backend_result = Timeout
    /\ NullAction /\ last.result.status = CouldNotGenerate

(***************************************************************************)
(* Properties of the Plan Synthesizer, on responses built from prose and   *)
(* JSON (SpecSynth).                                                       *)
(***************************************************************************)
SynthReturned == synth_pc = "returned"
Brackets == {"[", "]", "{", "}"}
NoBrackets(text) == \A k \in 1..Len(text) : At(text, k) \notin Brackets

\* C8 as stated: a response of prose around one valid JSON array yields exactly
\* that array, and a response without any bracket yields the empty sequence.
C8_ProseAroundArray ==
    SynthReturned
        => /\ given.form = "array" => returned_plan = given.steps
           /\ NoBrackets(Response(given)) => returned_plan = <<>>

\* C8 amended: a response of prose around one valid JSON array yields exactly that
\* array provided no '[' stands before the array and no ']' after it; a response
\* without any bracket yields the empty sequence.
C8_ProseWithoutSquareBracketsAroundArray ==
    SynthReturned
        => /\ (/\ given.form = "array"
               /\ ~Contains(given.before, "[") /\ ~Contains(given.after, "]"))
                 => returned_plan = given.steps
           /\ NoBrackets(Response(given)) => returned_plan = <<>>

\* C8 witness: a two-step array between two pieces of prose was returned whole.
C8_Witness ==
    /\ SynthReturned /\ given.form = "array"
    /\ given.before = "Sure! Here is the plan: " /\ given.after = " Hope this helps."
    /\ Len(given.steps) = 2
    /\ returned_plan = given.steps

\* C9: a response with no parsable JSON array but with a valid JSON object
\* between its first '{' and last '}' yields the one-element sequence holding
\* that object.
C9_ObjectIsWrapped ==
    (/\ SynthReturned
     /\ ~HasArray(Strip(Response(given)))
     /\ HasObject(Strip(Response(given))))
        => returned_plan = <<json_loads(ObjectBlock(Strip(Response(given)))).val>>

\* the parameters an action descriptor of each variant needs
ValidStep(step) ==
    /\ step.t = "obj"
    /\ LET action == dict_get(step, "action", JNull)
       IN \/ action = JStr("open_url") /\ dict_has(step, "url")
          \/ action = JStr("click")
               /\ (dict_has(step, "text") \/ (dict_has(step, "x") /\ dict_has(step, "y")))
          \/ action = JStr("type") /\ dict_has(step, "text")
          \/ action = JStr("wait") /\ dict_has(step, "seconds")
          \/ action = JStr("wait_for") /\ dict_has(step, "text")
          \/ action = JStr("press_key") /\ dict_has(step, "key")

\* C27: every element of a non-empty sequence returned by generate_plan is an
\* action descriptor of one of the six variants with the parameters it needs.
C27_ReturnedPlanIsValidated ==
    (SynthReturned /\ returned_plan # <<>>)
        => \A k \in 1..Len(returned_plan) : ValidStep(returned_plan[k])

(***************************************************************************)
(* Properties of the availability gate.                                    *)
(***************************************************************************)
\* C11: while the availability flag is false, generate_plan returns the empty
\* sequence whatever the backend would answer, and a parse takes no screen
\* capture, runs no backend call, pulls no model and selects no synthesis.
C11_UnavailableIsRefused ==
    [][~ollama_available
        => /\ \A o \in BackendOutcomes :
                generate_plan(ollama_available, o) = Returned(<<>>)
           /\ captures' = captures
           /\ backend_result' \in {backend_result, NoCall}
           /\ <<last, prev>>' # <<last, prev>>
                => /\ backend_result' = NoCall
                   /\ pulls' = 0
                   /\ last'.result.matcher # "synthesis"]_vars

\* C11 witness: an agent exists, the flag is false, and a flagged instruction was
\* parsed without a capture and without a backend call.
C11_Witness ==
    /\ Parsed /\ vision /\ llm_agent /\ ~last.available /\ ~ollama_available
    /\ Flagged /\ ~SimpleForm
    /\ captures = 0 /\ backend_result = NoCall

\* C12: a construction whose liveness probe succeeds completes, with the
\* availability flag true and at most one pull of the pinned model.
C12_ProbeSuccessCompletesConstruction ==
    [][(app = "start" /\ probe' = "ok")
        => /\ app' = "running"
           /\ llm_agent' /\ ollama_available'
           /\ pulls' \in {0, 1}]_vars

(***************************************************************************)
(* Properties of the Plan Executor and of the workers (SpecExec).          *)
(***************************************************************************)
PlanWorkers == {w \in Workers : workers[w].action = "_execute_llm_plan"}
Posted(w) == workers[w].pc = "posted"
\* a click-by-text step whose target is not on the screen
AbsentClick(step) ==
    /\ dict_get(step, "action", JNull) = JStr("click")
    /\ dict_has(step, "text")
    /\ find_text_on_screen(screen, dict_get(step, "text", JNull).v) = {}
AbsentClicks(w) ==
    {i \in 1..Len(PlanOf(workers[w])) : AbsentClick(PlanOf(workers[w])[i])}
\* the calls logged for step i of worker w
LoggedFor(w, i) ==
    LET of_step == SelectSeq(workers[w].log, LAMBDA entry : entry.step = i)
    IN [k \in 1..Len(of_step) |-> of_step[k].call]

\* C13: a plan with a click-by-text step whose target is absent makes no click
\* for that step, goes through all its steps and ends normally.
C13_AbsentTargetDoesNotAbort ==
    \A w \in PlanWorkers :
        (Posted(w) /\ AbsentClicks(w) # {})
            => /\ \A i \in AbsentClicks(w) :
                    \A k \in 1..Len(LoggedFor(w, i)) : LoggedFor(w, i)[k].op # "click"
               /\ workers[w].idx = Len(PlanOf(workers[w]))
               /\ workers[w].error = ""
               /\ workers[w].posts = <<PlanExecuted>>

\* C14: a plan that completed without raising and skipped a click-by-text step
\* reports a result that differs from the result of a run that skipped nothing.
C14_SkippedStepIsObservable ==
    \A w \in PlanWorkers :
        (Posted(w) /\ workers[w].error = "" /\ AbsentClicks(w) # {})
            => workers[w].posts # <<PlanExecuted>>

\* C15: when a primitive of a step raises, the loop still takes the steps after
\* it: a plan execution ends only after the loop has reached the last step and
\* every step before the last has made all its calls.
C15_FailureIsIsolatedToItsStep ==
    \A w \in PlanWorkers :
        Posted(w)
            => /\ workers[w].idx = Len(PlanOf(workers[w]))
               /\ \A i \in 1..(Len(PlanOf(workers[w])) - 1) :
                    Len(LoggedFor(w, i)) > 0 \/ StepCalls(PlanOf(workers[w])[i], screen) = <<>>

\* C16: within one plan execution the calls are made in plan order, each call
\* belongs to the plan step the loop is at, and a step has made all its calls,
\* its settle delay included, before a later step makes one.
C16_StepsAreSequential ==
    \A w \in PlanWorkers :
        LET plan == PlanOf(workers[w])
            log == workers[w].log
        IN /\ \A k \in 1..Len(log) :
                /\ log[k].step \in 1..workers[w].idx
                /\ k < Len(log) => log[k].step <= log[k + 1].step
                /\ \E c \in 1..Len(StepCalls(plan[log[k].step], screen)) :
                        StepCalls(plan[log[k].step], screen)[c] = log[k].call
           /\ \A i \in 1..Len(plan) :
                (\E k \in 1..Len(log) : log[k].step > i)
                    => LoggedFor(w, i) = StepCalls(plan[i], screen)
           /\ workers[w].pending # <<>> => workers[w].idx >= 1

\* C16 witness: a three-step plan ran to its end and the first and the third step
\* both made calls.
C16_Witness ==
    \E w \in PlanWorkers :
        /\ Posted(w) /\ workers[w].posts = <<PlanExecuted>>
        /\ Len(PlanOf(workers[w])) = 3
        /\ LoggedFor(w, 1) # <<>> /\ LoggedFor(w, 3) # <<>>

\* C17: resolving an instruction never occupies the UI thread.
C17_ResolutionIsOffTheUiThread ==
    ui_pc # "resolving"

AllIn(s, C) == \A k \in 1..Len(s) : At(s, k) \in C
\* type '<text>' in <app>: where the final "' in " starts, 0 when there is none
FinalIn ==
    IF Occurrences(text_input, "' in ") = {} THEN 0
    ELSE MaxOf(Occurrences(text_input, "' in "))
TypedText == Sub(text_input, 7, FinalIn - 1)
TypedApp == From(text_input, FinalIn + 5)
IsTypeForm ==
    /\ StartsAt(text_input, "type '", 1)
    /\ FinalIn > 7
    /\ ~Contains(TypedText, "'")
    /\ TypedApp # "" /\ AllIn(TypedApp, WordChars)

\* C19: an instruction type '<text>' in <app> binds the type-in-application
\* action with exactly (<text>, <app>), the application being the name after the
\* final ' in '.
C19_TypeInAppBindsTextAndApp ==
    (Parsed /\ IsTypeForm)
        => /\ last.result.kind = "return"
           /\ last.result.action = "_type_in_app"
           /\ last.result.args = <<JStr(TypedText), JStr(TypedApp)>>

\* open <app> with <app> a single word
IsOpenWord ==
    /\ StartsAt(text_input, "open ", 1)
    /\ Len(text_input) > 5 /\ AllIn(From(text_input, 6), WordChars)

\* C20: an instruction open <app> with a single word binds launch_app with that
\* word, whatever the backend availability and the vision setting.
C20_OpenWordLaunches ==
    (Parsed /\ IsOpenWord)
        => /\ last.result.kind = "return"
           /\ last.result.action = "launch_app"
           /\ last.result.args = <<JStr(From(text_input, 6))>>

\* open spotify and play <query>
SpotifyPlayPrefix == "open spotify and play "
PlayQuery == From(text_input, Len(SpotifyPlayPrefix) + 1)
IsSpotifyPlay ==
    /\ StartsAt(text_input, SpotifyPlayPrefix, 1)
    /\ PlayQuery # "" /\ AllIn(PlayQuery, WordChars)

\* C28: with the backend unavailable, open spotify and play <query> binds the
\* media-player action with <query>, not a plain launch of spotify.
C28_SpotifyPlayBindsTheQuery ==
    (Parsed /\ ~WasReady /\ IsSpotifyPlay)
        => /\ last.result.kind = "return"
           /\ last.result.action = "_open_spotify_and_search"
           /\ last.result.args = <<JStr(PlayQuery)>>

(***************************************************************************)
(* Properties of the Screen Analyzer (SpecVision).                         *)
(***************************************************************************)
\* C21: a retrieval of the current screen state that works from an image has
\* captured that image itself: it is the latest capture and shows what was on
\* the screen when the retrieval was called.
C21_RetrievalIsFresh ==
    (retrieved.op # "none" /\ retrieved.image # NoImage)
        => /\ retrieved.captured
           /\ retrieved.image = all_shots[Len(all_shots)]
           /\ retrieved.image.content = retrieved.shown

\* the last n entries of a history
LastN(history, n) ==
    SubSeq(history, IF Len(history) > n THEN Len(history) - n + 1 ELSE 1, Len(history))

\* C22: the snapshot cache and the OCR cache hold at most cache_size entries
\* each, and they are the most recent captures and extractions, oldest first.
C22_CachesHoldTheMostRecent ==
    /\ Len(screenshot_cache) <= cache_size
    /\ Len(ocr_cache) <= cache_size
    /\ screenshot_cache = LastN(all_shots, cache_size)
    /\ ocr_cache = LastN(all_texts, cache_size)

\* C22 witness: both caches are full and each has dropped its oldest entry.
C22_Witness ==
    /\ Len(all_shots) > cache_size /\ Len(screenshot_cache) = cache_size
    /\ Len(all_texts) > cache_size /\ Len(ocr_cache) = cache_size
    /\ screenshot_cache[1] = all_shots[2]

\* C23: without OCR every vision-based intent returns, and what it returns
\* says "not available".
C23_NoOcrReportsNotAvailable ==
    (~ocr_available /\ answer.intent # "none")
        => /\ ~answer.ended.raised
           /\ Contains(Lower(answer.ended.text), "not available")

(***************************************************************************)
(* The availability flag as a frame condition.                             *)
(***************************************************************************)
\* C24: a step that changes the availability flag is a step of the install flow;
\* a parse leaves the flag as it was, whatever the backend call did.
C24_OnlyInstallFlowWritesTheFlag ==
    [][ollama_available' # ollama_available
        => \E installed, present \in BOOLEAN : InstallFlow(installed, present)]_vars

\* C24 witness: the backend call of the last synthesis timed out and the flag is
\* still set.
C24_Witness ==
    /\ Parsed /\ backend_result = Timeout /\ last.available
    /\ pulls = 0 /\ ollama_available

(***************************************************************************)
(* Independently triggered instructions (SpecExec).                        *)
(***************************************************************************)
\* worker b made a call between two consecutive calls of the plan of worker a
CallBetween(a, b) ==
    \E k \in 1..(Len(workers[a].log) - 1) : \E j \in 1..Len(workers[b].log) :
        /\ workers[a].log[k].at < workers[b].log[j].at
        /\ workers[b].log[j].at < workers[a].log[k + 1].at

BoundAction == last.result.kind = "return" /\ last.result.action # "None"

\* C30: a step of the UI thread (submitting, resolving) makes no automation call
\* and touches no running worker; a resolution that binds an action starts one
\* worker that has done nothing yet, and one that returns the null action starts
\* none.
C30_ResolveCallsNoPrimitive ==
    [][ui_pc' # ui_pc
        => /\ CallsSoFar(workers') = CallsSoFar(workers)
           /\ SubSeq(workers', 1, Len(workers)) = workers
           /\ IF ui_pc = "resolving" /\ BoundAction'
              THEN /\ Len(workers') = Len(workers) + 1
                   /\ workers'[Len(workers')].pc = "running"
                   /\ workers'[Len(workers')].log = <<>>
                   /\ workers'[Len(workers')].posts = <<>>
              ELSE workers' = workers]_vars

\* C30 witness: a resolution has bound a plan, its worker is started, and no
\* automation call has been made yet.
C30_Witness ==
    /\ ui_pc = "idle" /\ BoundAction /\ last.result.action = "_execute_llm_plan"
    /\ Len(PlanOf(workers[Len(workers)])) > 0
    /\ workers[Len(workers)].idx = 0
    /\ CallsSoFar(workers) = 0

(***************************************************************************)
(* Properties of the voice recognizer (SpecVoice).                         *)
(***************************************************************************)
\* C26: stop_listening ends no thread: every loop is after the stop where it was
\* before it, nothing is called back by the stop, and a recognition in flight
\* leaves that state only by its own return.
C26_StopDoesNotInterrupt ==
    [][/\ StopListening
          => /\ \A l \in Loops : loops'[l].pc = loops[l].pc
             /\ Len(loops') = Len(loops)
             /\ delivered' = delivered
       /\ \A l \in Loops :
            loops[l].pc = "recognizing"
                => loops'[l].pc \in {"recognizing", "finishing"}]_vars

\* C26 witness: a loop was stopped while its recognition call was in flight and
\* has run to its end.
C26_Witness ==
    \E l \in Loops : loops[l].stopped = "recognizing" /\ loops[l].pc = "done"

\* C29: at most one loop is in flight, and no transcription of a loop that was
\* stopped is passed to the callback.
C29_OneLoopAndNoStoppedDelivery ==
    /\ Cardinality({l \in Loops : InFlight(l)}) <= 1
    /\ \A k \in 1..Len(delivered) :
         delivered[k].text = Transcription => delivered[k].stopped = "no"

====
